---------------------------- MODULE Spec2Model ----------------------------
(***************************************************************************)
(* SecuringSkies platform: telemetry ingest, fleet table, forensic         *)
(* recorder and SITREP ticker.                                             *)
(*                                                                         *)
(* Two programs of the repository are modelled side by side:               *)
(*   - the modular platform: securingskies/core/officer.py                 *)
(*     (GhostCommander), securingskies/outputs/recorder.py (BlackBox) and  *)
(*     the mission loop of securingskies/main.py;  specification Spec      *)
(*     follows the two threads step by step, QuietSpec takes whole report  *)
(*     periods with the metrics auditor (securingskies/outputs/auditor.py) *)
(*     switched on, and RecorderSpec runs the recorder on its own over a   *)
(*     file system that may refuse, with two threads logging and with the  *)
(*     shutdown handler of main.py                                         *)
(*   - the legacy monolith archive/legacy/ai_officer_v47.py;               *)
(*     specification LegacySpec                                            *)
(* Beside them stand the replay tool labs/replay/replay_tool.py            *)
(* (ReplaySpec), the geodesy functions securingskies/utils/geo.py          *)
(* (GeoSpec) and the driver classes securingskies/drivers (DriverSpec),    *)
(* the platform started with its lighting controller                       *)
(* securingskies/outputs/hue.py (HueSpec), the live feed bridge            *)
(* web/server.py (WebSpec) and the persona prompt loader of officer.py     *)
(* (BrainSpec).                                                            *)
(*                                                                         *)
(* JSON values are tagged records, so that values of different JSON types  *)
(* can be compared:  a number n is [num |-> n], a string [str |-> s], an   *)
(* object [obj |-> f] with f a function from keys to JSON values, a list   *)
(* [list |-> s], JSON null / Python None is Null.  A Python float that is  *)
(* not integral is kept in tenths: 0.1 is Tenths(1), 5.0 is Tenths(50).    *)
(***************************************************************************)
EXTENDS Integers, Sequences, FiniteSets, TLC

VARIABLES
    telemetry_buffer,  \* GhostCommander.telemetry_buffer: key -> record (a dict)
    key_order,         \* insertion order of telemetry_buffer's keys (dict order)
    record_enabled,    \* GhostCommander.recorder is not None (--record)
    log_lines,         \* lines of the session file written by BlackBox.log
    msg_count,         \* number of messages handed to on_message so far
    last_msg,          \* the (topic, payload) of the latest on_message call
    parse_error,       \* the latest process_traffic call ended in its except clause
    now,               \* time.time(), whole seconds
    pc,                \* position of the main thread in the mission loop
    last_report,       \* main(): last_report
    start_time,        \* generate_sitrep: start_time
    iter_used,         \* dict iterator: size of the dict when iteration began
    iter_pos,          \* dict iterator: number of items already yielded
    lines,             \* _format_telemetry_buffer: lines
    tables_seen,       \* the fleet tables that existed while the buffer was read
    user_prompt,       \* generate_sitrep: user_prompt
    llm_calls,         \* completion() calls that have not returned yet
    llm_outcome,       \* how the latest completion() call ended
    report,            \* the text main() printed for the latest tick
    metrics_enabled,   \* GhostCommander.auditor is not None
    metrics_rows,      \* rows of the metrics file written by TelemetryAuditor.audit
    last_seen,         \* key -> server time of the dispatcher's latest write to it
    \* the legacy monolith (archive/legacy/ai_officer_v47.py)
    history,           \* telemetry_buffer[tid]['history'], by tid
    current_pilot_pos, \* global current_pilot_pos
    log_file,          \* lines written by log_packet
    traffic,           \* args.traffic
    packets,           \* number of messages handed to the legacy on_message
    clock,             \* time.time() of the legacy process, whole seconds
    last_sitrep_time,  \* global last_sitrep_time
    intel,             \* the text the latest legacy report printed
    turns,             \* turns of the legacy main loop so far
    targets,           \* generate_sitrep: targets, the context line of each tid
    attempt,           \* the latest LLM request: outcome, start and end time
    \* the recorder on its own (securingskies/outputs/recorder.py)
    blackbox,          \* the BlackBox object: enabled, file_handle, lines written
    disk,              \* what the file system allows: logs/ exists, mkdir, open
    calls,             \* the calls made on the recorder and whether each raised
    in_flight,         \* the threads inside BlackBox.log(), each with its line
    process,           \* main.py: replay_process and whether the process has exited
    \* the replay tool (labs/replay/replay_tool.py), a process of its own
    tape,              \* the log file's lines and the arguments --jump, --speed
    replay,            \* replay(): its locals, its clock and how far it got
    bus,               \* the packets published so far, each with its emission time
    \* library code called with sampled arguments
    geo,               \* utils/geo.py: the arguments and the outcome of one call
    driver,            \* drivers/*.py: packet_count of each driver, the latest call
    \* the lighting controller, the live feed bridge and the prompt loader
    hue,               \* outputs/hue.py: the HueController object and its latest call
    web,               \* web/server.py: fleet_state and the events pushed so far
    brain              \* officer.py: the latest call of _load_optimized_brain

vars == <<telemetry_buffer, key_order, record_enabled, log_lines, msg_count,
          last_msg, parse_error, now, pc, last_report, start_time, iter_used,
          iter_pos, lines, tables_seen, user_prompt, llm_calls, llm_outcome, report,
          metrics_enabled, metrics_rows, last_seen,
          history, current_pilot_pos, log_file, traffic, packets, clock,
          last_sitrep_time, intel, turns, targets, attempt,
          blackbox, disk, calls, in_flight, process,
          tape, replay, bus, geo, driver, hue, web, brain>>

legacyVars == <<history, current_pilot_pos, log_file, traffic, packets, clock,
                last_sitrep_time, intel, turns, targets, attempt>>

(***************************************************************************)
(* Bounds of the model.                                                    *)
(***************************************************************************)
MaxMsgs == 2      \* messages delivered in one behaviour
MaxTime == 4      \* last second of the mission clock
Interval == 1     \* --interval (seconds between reports)

(***************************************************************************)
(* JSON values and the Python operations the dispatcher applies to them.   *)
(***************************************************************************)
Num(n) == [num |-> n]
Str(s) == [str |-> s]
Obj(f) == [obj |-> f]
List(s) == [list |-> s]
Tenths(n) == [tenths |-> n]
Null == [null |-> "None"]
EmptyDict == [k \in {} |-> Null]

IsNum(v) == "num" \in DOMAIN v
IsStr(v) == "str" \in DOMAIN v
IsObj(v) == "obj" \in DOMAIN v
IsList(v) == "list" \in DOMAIN v

\* Python truth value of a JSON value
Truthy(v) ==
    IF IsNum(v) THEN v.num # 0
    ELSE IF IsStr(v) THEN v.str # ""
    ELSE IF IsObj(v) THEN DOMAIN v.obj # {}
    ELSE IF IsList(v) THEN Len(v.list) > 0
    ELSE IF "tenths" \in DOMAIN v THEN v.tenths # 0
    ELSE FALSE

\* `key in v`: defined on objects (key test), lists (membership) and strings
\* (substring test: no sampled string holds a key name); raises TypeError on
\* numbers and null.
InRaises(v) == ~(IsObj(v) \/ IsList(v) \/ IsStr(v))
In(key, v) ==
    IF IsObj(v) THEN key \in DOMAIN v.obj
    ELSE IF IsList(v) THEN \E i \in 1..Len(v.list) : v.list[i] = Str(key)
    ELSE FALSE

\* v.get(key, default): AttributeError unless v is a dict
GetRaises(v) == ~IsObj(v)
Get(v, key, default) ==
    IF IsObj(v) /\ key \in DOMAIN v.obj THEN v.obj[key] ELSE default

\* dict.get on a stored record (a function from keys to JSON values)
DictGet(d, key, default) == IF key \in DOMAIN d THEN d[key] ELSE default

\* hashable: usable as a dict key
Hashable(v) == ~(IsObj(v) \/ IsList(v))

\* str(v)
PyStr(v) == IF IsNum(v) THEN Str(ToString(v.num)) ELSE IF IsStr(v) THEN v ELSE [repr |-> v]

\* f"{latency:.2f}s"
LatencyStr(secs) == [latency_s |-> secs]


\* float(v): the magnitude as a Python float, in tenths
IsNumeric(v) == IsNum(v) \/ "tenths" \in DOMAIN v
AsTenths(v) == IF IsNum(v) THEN 10 * v.num ELSE v.tenths

\* abs(v): TypeError unless v is a number; the magnitude in tenths
AbsRaises(v) == ~IsNumeric(v)
AbsTenths(v) == IF AsTenths(v) < 0 THEN -AsTenths(v) ELSE AsTenths(v)

(***************************************************************************)
(* Topics and payload bytes.  The topic tests of the dispatcher are        *)
(* tabulated over the sampled topics.                                      *)
(***************************************************************************)
TopicOsd == "thing/product/SN1234/osd"
TopicState == "thing/product/SN1234/state"
TopicSn == "thing/product/sn"
TopicOwn == "owntracks/user/RW"
TopicTag == "dronetag/9999"

EndsWithSn(topic) == topic = TopicSn        \* topic.endswith("/sn")
HasDronetag(topic) == topic = TopicTag      \* "dronetag" in topic

\* msg.payload: the UTF-8 text of a JSON value, or bytes that are no JSON
Bytes(v) == [json |-> v]
Garbage == [garbage |-> "not json"]
JsonLoadsRaises(payload) == "json" \notin DOMAIN payload
JsonLoads(payload) == payload.json

AUTEL_UAV == Str("AUTEL_UAV")


(***************************************************************************)
(* GhostCommander.process_traffic, case by case.  Every case operator      *)
(* returns [buf, order, exc, data]: the fleet table and its key order      *)
(* as the case leaves them, whether the case raised (and so left through   *)
(* the except clause of process_traffic), and the `data` it ends with.     *)
(***************************************************************************)

\* self.telemetry_buffer[key] = value
SetItem(t, key, value) ==
    [buf |-> (key :> value) @@ t.buf,
     order |-> IF key \in DOMAIN t.buf THEN t.order ELSE Append(t.order, key)]

\* if tid not in self.telemetry_buffer: self.telemetry_buffer[tid] = {}
Placeholder(t, key) == IF key \in DOMAIN t.buf THEN t ELSE SetItem(t, key, EmptyDict)

\* self.telemetry_buffer[key][field] = value
SetField(t, key, field, value) ==
    [buf |-> [t.buf EXCEPT ![key] = (field :> value) @@ @], order |-> t.order]

\* latency of the controller heartbeat: float(data["timestamp"]) / 1000.0
\* inside try/except: pass
HeartbeatLatency(data, server_ts) ==
    IF In("timestamp", data) /\ IsObj(data) /\ IsNumeric(data.obj.timestamp)
    THEN LatencyStr(server_ts - (AsTenths(data.obj.timestamp) \div 10000))
    ELSE Str("N/A")

\* new if (new and abs(new) > 1) else current
PositionRaises(new) == Truthy(new) /\ AbsRaises(new)
PositionAccepted(new) == Truthy(new) /\ IsNumeric(new) /\ AbsTenths(new) > 10
FinalPosition(new, current) == IF PositionAccepted(new) THEN new ELSE current

\* one pass of `for drone in data["drone_list"]` on the record of AUTEL_UAV
DroneRaises(drone) ==
    \/ GetRaises(drone)
    \/ PositionRaises(Get(drone, "latitude", Null))
    \/ PositionRaises(Get(drone, "longitude", Null))
    \/ GetRaises(Get(drone, "battery", Obj(EmptyDict)))
    \/ GetRaises(Get(drone, "position_state", Obj(EmptyDict)))

MergeDrone(rec, drone) ==
    [tid |-> AUTEL_UAV,
     type |-> Str("UAV (Autel)"),
     lat |-> FinalPosition(Get(drone, "latitude", Null), DictGet(rec, "lat", Num(0))),
     lon |-> FinalPosition(Get(drone, "longitude", Null), DictGet(rec, "lon", Num(0))),
     alt |-> Get(drone, "height", Num(0)),
     batt |-> Get(Get(drone, "battery", Obj(EmptyDict)), "capacity_percent", Num(0)),
     speed |-> Get(drone, "horizontal_speed", Num(0)),
     pos_type |-> Get(drone, "pos_type", Str("0")),
     acc |-> IF Get(Get(drone, "position_state", Obj(EmptyDict)), "is_fixed", Null) = Num(2)
             THEN Tenths(1) ELSE Tenths(50)]
    @@ rec

\* iterating a JSON value: TypeError on numbers and null; a dict or a string
\* yields strings (its keys, its characters)
IterRaises(v) == ~(IsList(v) \/ IsObj(v) \/ IsStr(v))
IterItems(v) ==
    IF IsList(v) THEN v.list
    ELSE IF Truthy(v) THEN <<Str("k")>>
    ELSE <<>>

RECURSIVE DroneLoop(_, _, _)
DroneLoop(rec, drones, i) ==
    IF i > Len(drones) THEN [rec |-> rec, exc |-> FALSE]
    ELSE IF DroneRaises(drones[i]) THEN [rec |-> rec, exc |-> TRUE]
    ELSE DroneLoop(MergeDrone(rec, drones[i]), drones, i + 1)

\* CASE A: Autel heartbeat / device list
CaseHeartbeat(t, data, server_ts) ==
    LET t1 == SetField(Placeholder(t, AUTEL_UAV), AUTEL_UAV, "c2_latency",
                       HeartbeatLatency(data, server_ts))
        dl == Get(data, "drone_list", Null)
        loop == DroneLoop(t1.buf[AUTEL_UAV], IterItems(dl), 1)
    IN  IF ~In("drone_list", data)
        THEN [buf |-> t1.buf, order |-> t1.order, exc |-> FALSE, data |-> data]
        ELSE IF ~IsObj(data) \/ IterRaises(dl)
        THEN [buf |-> t1.buf, order |-> t1.order, exc |-> TRUE, data |-> data]
        ELSE [buf |-> [t1.buf EXCEPT ![AUTEL_UAV] = loop.rec], order |-> t1.order,
              exc |-> loop.exc, data |-> data]


\* CASE B: Autel OSD (direct raw telemetry)
CaseDirectOsd(t, data) ==
    LET t1 == SetField(Placeholder(t, AUTEL_UAV), AUTEL_UAV, "type", Str("UAV (Autel)"))
        t2 == IF In("pos_type", data)
              THEN SetField(t1, AUTEL_UAV, "pos_type", PyStr(data.obj.pos_type)) ELSE t1
        t3 == IF In("capacity_percent", data)
              THEN SetField(t2, AUTEL_UAV, "batt", data.obj.capacity_percent) ELSE t2
        t4 == IF In("height", data)
              THEN SetField(t3, AUTEL_UAV, "alt", data.obj.height) ELSE t3
    IN  IF ~IsObj(data)   \* data["pos_type"] on a list: TypeError
        THEN [buf |-> t1.buf, order |-> t1.order, exc |-> TRUE, data |-> data]
        ELSE [buf |-> t4.buf, order |-> t4.order, exc |-> FALSE, data |-> data]

\* CASE C: Autel vision
VisionRaises(data) ==
    \/ GetRaises(data)
    \/ ~IsNumeric(Get(data, "obj_cnt", Num(0)))            \* count > 0
    \/ /\ AsTenths(Get(data, "obj_cnt", Num(0))) > 0
       /\ LET objs == Get(data, "objs", List(<<>>))
          IN  \/ IterRaises(objs)
              \/ \E i \in 1..Len(IterItems(objs)) : GetRaises(IterItems(objs)[i])

Sightings(data) ==
    LET objs == IterItems(Get(data, "objs", List(<<>>)))
    IN  [contact |-> [i \in 1..Len(objs) |-> Get(objs[i], "cls_id", Null)]]

CaseVision(t, data) ==
    IF AUTEL_UAV \notin DOMAIN t.buf
    THEN [buf |-> t.buf, order |-> t.order, exc |-> FALSE, data |-> data]
    ELSE IF VisionRaises(data)
    THEN [buf |-> t.buf, order |-> t.order, exc |-> TRUE, data |-> data]
    ELSE IF AsTenths(Get(data, "obj_cnt", Num(0))) > 0
    THEN LET t1 == SetField(t, AUTEL_UAV, "ai_sightings", Sightings(data))
         IN  [buf |-> t1.buf, order |-> t1.order, exc |-> FALSE, data |-> data]
    ELSE [buf |-> t.buf, order |-> t.order, exc |-> FALSE, data |-> data]

\* data.get("vel", 0) / 3.6
KmhToMs(vel) == Tenths((AsTenths(vel) * 10) \div 36)

\* CASE D: OwnTracks (mobile phone)
CaseOwnTracks(t, data, server_ts) ==
    LET tid == Get(data, "tid", Null)
        vel == Get(data, "vel", Num(0))
        d1 == ("speed" :> KmhToMs(vel)) @@ ("type" :> Str("Ground Station (GCS)")) @@ data.obj
        d2 == IF "tst" \in DOMAIN d1 /\ IsNumeric(d1["tst"])
              THEN ("link_latency" :> LatencyStr(server_ts - (AsTenths(d1["tst"]) \div 10))) @@ d1
              ELSE d1
        t1 == SetItem(t, tid, d2)
    IN  IF GetRaises(data) \/ ~IsNumeric(vel)
        THEN [buf |-> t.buf, order |-> t.order, exc |-> TRUE, data |-> data]
        ELSE IF ~Hashable(tid)
        THEN [buf |-> t.buf, order |-> t.order, exc |-> TRUE, data |-> Obj(d2)]
        ELSE [buf |-> t1.buf, order |-> t1.order, exc |-> FALSE, data |-> Obj(d2)]

\* datetime.fromisoformat(...).timestamp() of the sampled device timestamps
IsoEpoch(ts) == IF ts = Str("1970-01-01T00:00:01Z") THEN 1 ELSE -1

\* the MSL scan of `for a in data.get("altitudes", [])`
RECURSIVE AltScan(_, _)
AltScan(alts, i) ==
    IF i > Len(alts) THEN [alt |-> Num(0), exc |-> FALSE]
    ELSE IF GetRaises(alts[i]) THEN [alt |-> Num(0), exc |-> TRUE]
    ELSE IF Get(alts[i], "type", Null) = Str("MSL")
    THEN [alt |-> Get(alts[i], "value", Num(0)), exc |-> FALSE]
    ELSE AltScan(alts, i + 1)

\* CASE E: Dronetag (Remote ID)
CaseDronetag(t, data, server_ts) ==
    LET tid == Get(data, "sensor_id", Str("DRONETAG_UNKNOWN"))
        loc == Get(data, "location", Obj(EmptyDict))
        alts == Get(data, "altitudes", List(<<>>))
        scan == AltScan(IterItems(alts), 1)
        vel == Get(data, "velocity", Obj(EmptyDict))
        ts == Get(data, "timestamp", Null)
        rec == [tid |-> tid,
                type |-> Str("UAV (Dronetag)"),
                lat |-> Get(loc, "latitude", Null),
                lon |-> Get(loc, "longitude", Null),
                acc |-> Get(loc, "accuracy", Num(10)),
                alt |-> scan.alt,
                speed |-> Get(vel, "horizontal_speed", Num(0)),
                state |-> Get(data, "operational_state", Str("unknown")),
                batt |-> Str("N/A"),
                link_latency |-> IF In("timestamp", data) /\ IsoEpoch(ts) >= 0
                                 THEN LatencyStr(server_ts - IsoEpoch(ts))
                                 ELSE Str("N/A")]
        t1 == SetItem(t, tid, rec)
    IN  IF \/ GetRaises(data) \/ IterRaises(alts) \/ scan.exc
           \/ GetRaises(loc) \/ GetRaises(vel) \/ ~Hashable(tid)
        THEN [buf |-> t.buf, order |-> t.order, exc |-> TRUE, data |-> data]
        ELSE [buf |-> t1.buf, order |-> t1.order, exc |-> FALSE, data |-> data]

\* lines 113-117: unwrap {"data": {...}}
Unwrap(data) ==
    IF In("data", data) /\ IsObj(data) /\ IsObj(data.obj.data) THEN data.obj.data ELSE data

\* lines 119-226: the normalization cases, in the order of the if/elif chain
Normalize(t, topic, data, server_ts) ==
    IF In("drone_list", data) \/ EndsWithSn(topic) THEN CaseHeartbeat(t, data, server_ts)
    ELSE IF In("pos_type", data) \/ In("capacity_percent", data) THEN CaseDirectOsd(t, data)
    ELSE IF In("obj_cnt", data) /\ In("objs", data) THEN CaseVision(t, data)
    ELSE IF In("tid", data) THEN CaseOwnTracks(t, data, server_ts)
    ELSE IF HasDronetag(topic) \/ In("sensor_id", data) THEN CaseDronetag(t, data, server_ts)
    ELSE [buf |-> t.buf, order |-> t.order, exc |-> FALSE, data |-> data]

(***************************************************************************)
(* BlackBox.log(topic, payload): the entry it appends, as a sequence of    *)
(* zero or one lines.  The dispatcher hands it a decoded value, which is   *)
(* taken as it is and serialized; a str is parsed again (no sampled        *)
(* string is JSON text).                                                   *)
(***************************************************************************)
BlackBoxLog(enabled, ts, topic, payload) ==
    IF ~enabled THEN <<>>
    ELSE IF IsStr(payload) THEN <<>>   \* json.loads(payload) raises: swallowed
    ELSE <<[ts |-> ts, topic |-> topic, data |-> payload]>>

\* GhostCommander.process_traffic(topic, payload) at server time server_ts:
\* [buf, order, exc, logged]
ProcessTraffic(t, rec_on, topic, payload, server_ts) ==
    IF JsonLoadsRaises(payload) \/ InRaises(JsonLoads(payload))
    THEN [buf |-> t.buf, order |-> t.order, exc |-> TRUE, logged |-> <<>>]
    ELSE LET data == JsonLoads(payload)
             \* data["data"] on a list that holds the string "data": TypeError
             r == IF In("data", data) /\ ~IsObj(data)
                  THEN [buf |-> t.buf, order |-> t.order, exc |-> TRUE, data |-> data]
                  ELSE Normalize(t, topic, Unwrap(data), server_ts)
         IN  [buf |-> r.buf, order |-> r.order, exc |-> r.exc,
              logged |-> IF r.exc THEN <<>>
                         ELSE BlackBoxLog(rec_on, server_ts, topic, r.data)]


\* the JSON value a message carries (Null when the payload is not JSON), and
\* the value inside its {"data": {...}} wrapper
Decoded(m) == IF JsonLoadsRaises(m.payload) THEN Null ELSE JsonLoads(m.payload)
Inner(m) == IF IsObj(Decoded(m)) THEN Unwrap(Decoded(m)) ELSE Decoded(m)
Has(v, key) == IsObj(v) /\ key \in DOMAIN v.obj

\* the keys of the fleet table a call of process_traffic assigns a record
\* or a telemetry field to (CASE C only attaches sightings); exc tells
\* whether the call ended in its except clause
WrittenKeys(m, exc) ==
    LET data == Inner(m)
    IN  IF ~IsObj(data) THEN {}
        ELSE IF Has(data, "drone_list") \/ EndsWithSn(m.topic) THEN {AUTEL_UAV}
        ELSE IF exc THEN {}
        ELSE IF Has(data, "pos_type") \/ Has(data, "capacity_percent") THEN {AUTEL_UAV}
        ELSE IF Has(data, "obj_cnt") /\ Has(data, "objs") THEN {}
        ELSE IF Has(data, "tid") THEN {data.obj.tid}
        ELSE IF HasDronetag(m.topic) \/ Has(data, "sensor_id")
        THEN {Get(data, "sensor_id", Str("DRONETAG_UNKNOWN"))}
        ELSE {}

(***************************************************************************)
(* The sampled inbound messages.                                           *)
(***************************************************************************)
DroneGood ==
    Obj([latitude |-> Num(60), longitude |-> Num(24), height |-> Num(100),
         battery |-> Obj([capacity_percent |-> Num(59)])])
DroneZero == Obj([latitude |-> Num(0), longitude |-> Num(0)])
DroneZeroLat == Obj([latitude |-> Num(0), longitude |-> Num(25), height |-> Num(90)])
DroneBadLat == Obj([latitude |-> Str("n/a"), longitude |-> Num(24)])

Msg(topic, value) == [topic |-> topic, payload |-> Bytes(value)]
Wrapped(f) == Obj([data |-> Obj(f)])

Messages ==
    { Msg(TopicOsd, Wrapped([drone_list |-> List(<<DroneGood>>)])),
      Msg(TopicOsd, Wrapped([drone_list |-> List(<<DroneZero>>)])),
      Msg(TopicOsd, Wrapped([drone_list |-> List(<<DroneZeroLat>>)])),
      Msg(TopicOsd, Wrapped([drone_list |-> List(<<DroneGood, DroneBadLat>>)])),
      Msg(TopicSn, Obj([timestamp |-> Num(1000)])),
      Msg(TopicOsd, Wrapped([capacity_percent |-> Num(80), height |-> Num(5)])),
      Msg(TopicState, Wrapped([obj_cnt |-> Num(2), objs |-> List(<<Obj([cls_id |-> Num(30)]),
                                                                    Obj([cls_id |-> Num(1)])>>)])),
      Msg(TopicOwn, Obj([_type |-> Str("location"), tid |-> Str("RW"), lat |-> Num(60),
                         lon |-> Num(24), batt |-> Num(80), vel |-> Num(36)])),
      Msg(TopicOwn, Obj([_type |-> Str("location"), tid |-> Str("RW"), lat |-> Num(61),
                         lon |-> Num(24)])),
      Msg(TopicOwn, Obj([_type |-> Str("location"), tid |-> Str("RW"), vel |-> Str("fast")])),
      Msg(TopicTag, Obj([sensor_id |-> Str("TAG9999"),
                         location |-> Obj([latitude |-> Num(60), longitude |-> Num(24),
                                           accuracy |-> Num(3)]),
                         altitudes |-> List(<<Obj([type |-> Str("MSL"), value |-> Num(100)])>>)])),
      Msg(TopicTag, Obj([sensor_id |-> Str("TAG9999")])),
      Msg(TopicTag, Num(5)),
      [topic |-> TopicOsd, payload |-> Garbage] }

NoMsg == [topic |-> "", payload |-> Garbage]


(***************************************************************************)
(* The language model: what completion() can return or raise.              *)
(***************************************************************************)
LLMTexts == {"UAV holding at 100 m. Battery 59%."}
LLMErrors == {"ConnectionError", "HTTP 503"}

recorderVars == <<blackbox, disk, calls, in_flight, process>>
benchVars == <<tape, replay, bus, geo, driver>>
sinkVars == <<hue, web, brain>>
NoProcess == [replay_process |-> "none", exited |-> FALSE, cleanups |-> 0,
              recorder_closed |-> FALSE]
NoTape == [lines |-> <<>>, jump |-> FALSE, speed |-> 1]
NoReplay == [state |-> "idle"]
NoCall == [fn |-> "none"]
RETRY_COOLDOWN == 30
LongAgo == 0 - RETRY_COOLDOWN
\* commander.hue is None
NoHue == [present |-> FALSE, phue |-> FALSE, enabled |-> FALSE, is_connected |-> FALSE,
          last_failure_time |-> LongAgo, calls |-> 0, at |-> 0, net |-> 0, connects |-> 0,
          failed |-> FALSE, failed_at |-> LongAgo]
NoWeb == [fleet_state |-> <<>>, pushed |-> <<>>, count |-> 0, last |-> "none"]
NoBox == [state |-> "absent", enabled |-> FALSE, file_handle |-> FALSE, written |-> <<>>]
GoodDisk == [logs_exists |-> TRUE, can_mkdir |-> TRUE, can_open |-> TRUE]
NoAttempt == [outcome |-> "none", start |-> 0, end |-> 0]
NoOutcome == [kind |-> "none", detail |-> ""]

(***************************************************************************)
(* Initial state: GhostCommander constructed, broker connected, the        *)
(* mission loop about to sleep for the first time.                         *)
(***************************************************************************)
Init ==
    /\ telemetry_buffer = [k \in {} |-> EmptyDict]
    /\ key_order = <<>>
    /\ record_enabled \in BOOLEAN
    /\ log_lines = <<>>
    /\ msg_count = 0
    /\ last_msg = NoMsg
    /\ parse_error = FALSE
    /\ now = 0
    /\ pc = "sleep"
    /\ last_report = 0
    /\ start_time = 0
    /\ iter_used = 0
    /\ iter_pos = 0
    /\ lines = <<>>
    /\ tables_seen = {}
    /\ user_prompt = <<>>
    /\ llm_calls = 0
    /\ llm_outcome = NoOutcome
    /\ report = <<>>
    /\ metrics_enabled = FALSE
    /\ metrics_rows = <<>>
    /\ last_seen = [k \in {} |-> 0]
    /\ history = [k \in {} |-> <<>>]
    /\ current_pilot_pos = Null
    /\ log_file = <<>>
    /\ traffic = FALSE
    /\ packets = 0
    /\ clock = 0
    /\ last_sitrep_time = 0
    /\ intel = ""
    /\ turns = 0
    /\ targets = [k \in {} |-> EmptyDict]
    /\ attempt = NoAttempt
    /\ blackbox = NoBox
    /\ disk = GoodDisk
    /\ calls = <<>>
    /\ in_flight = {}
    /\ process = NoProcess
    /\ tape = NoTape
    /\ replay = NoReplay
    /\ bus = <<>>
    /\ geo = NoCall
    /\ driver = NoCall
    /\ hue = NoHue
    /\ web = NoWeb
    /\ brain = NoCall

tickerVars == <<now, pc, last_report, start_time, iter_used, iter_pos, lines, user_prompt,
                llm_calls, llm_outcome, report>>
ingestVars == <<telemetry_buffer, key_order, log_lines, msg_count, last_msg, parse_error>>

(***************************************************************************)
(* outputs/hue.py: HueController.  The object's fields, and about its      *)
(* latest set_state call: when it was made, how many network calls and     *)
(* connection attempts it made, and whether one of them failed.  Time is   *)
(* the mission clock, in seconds; _last_failure_time starts at 0, the Unix *)
(* epoch, which lies more than the cooldown before the start of any run.   *)
(***************************************************************************)
\* what the network does to one call: Bridge(ip).connect(), the boot test's
\* get_light_objects, and the caller's get_light_objects
NetOutcomes == [connect : BOOLEAN, boot : BOOLEAN, lights : BOOLEAN]

\* never cooling down: every call may try the bridge again
NeverCoolingDown(h, t) == FALSE

\* time.time() - self._last_failure_time < self.RETRY_COOLDOWN
CoolingDown(h, t) == t - h.last_failure_time < RETRY_COOLDOWN

\* the try block of set_state on a connected bridge: get_light_objects is
\* the network call; any exception marks the failure
SetLights(h, t, ok) ==
    IF ok THEN [h EXCEPT !.net = @ + 1]
    ELSE [h EXCEPT !.net = @ + 1, !.last_failure_time = t, !.is_connected = FALSE,
                   !.failed = TRUE]

\* HueController._connect(), with its boot test set_state("NORMAL")
HueConnect(h, t, out) ==
    IF CoolingDown(h, t) THEN h
    ELSE IF ~h.phue THEN [h EXCEPT !.enabled = FALSE]        \* ImportError
    ELSE IF out.connect
    THEN SetLights([h EXCEPT !.is_connected = TRUE, !.net = @ + 1, !.connects = @ + 1],
                   t, out.boot)
    ELSE [h EXCEPT !.net = @ + 1, !.connects = @ + 1, !.last_failure_time = t,
                   !.is_connected = FALSE, !.failed = TRUE]

\* HueController.set_state(state); the state only selects the colours
set_state(h, t, out) ==
    IF ~h.enabled THEN h
    ELSE IF ~h.is_connected
    THEN LET h1 == HueConnect(h, t, out)
         IN  IF ~h1.is_connected THEN h1 ELSE SetLights(h1, t, out.lights)
    ELSE SetLights(h, t, out.lights)

\* the time of the latest failure, kept beside the object
NoteFailure(h, t) == [h EXCEPT !.failed_at = IF h.failed THEN t ELSE @]

\* HueController(enabled=True) at time t
HueConstruct(installed, t, out) ==
    NoteFailure(HueConnect([NoHue EXCEPT !.present = TRUE, !.phue = installed,
                                         !.enabled = TRUE], t, out), t)

\* one call of set_state from outside the object, at time t
HueCall(h, t, out) ==
    NoteFailure(set_state([h EXCEPT !.calls = @ + 1, !.at = t, !.net = 0, !.connects = 0,
                                    !.failed = FALSE], t, out), t)

\* officer.py line 181: whether process_traffic reaches self.hue.set_state
ReachesSetState(buf, topic, payload) ==
    /\ ~JsonLoadsRaises(payload)
    /\ ~InRaises(JsonLoads(payload))
    /\ ~(In("data", JsonLoads(payload)) /\ ~IsObj(JsonLoads(payload)))
    /\ LET data == Unwrap(JsonLoads(payload))
       IN  /\ ~(In("drone_list", data) \/ EndsWithSn(topic))
           /\ ~(In("pos_type", data) \/ In("capacity_percent", data))
           /\ In("obj_cnt", data) /\ In("objs", data)
           /\ AUTEL_UAV \in DOMAIN buf
           /\ ~VisionRaises(data)
           /\ AsTenths(Get(data, "obj_cnt", Num(0))) > 0

(***************************************************************************)
(* main.on_message on the network thread: one call of process_traffic,     *)
(* which sets the lights when a vision packet reports a contact.           *)
(***************************************************************************)
OnMessage(m) ==
    /\ pc # "crashed"
    /\ msg_count < MaxMsgs
    /\ LET r == ProcessTraffic([buf |-> telemetry_buffer, order |-> key_order],
                               record_enabled, m.topic, m.payload, now)
       IN  /\ telemetry_buffer' = r.buf
           /\ key_order' = r.order
           /\ log_lines' = log_lines \o r.logged
           /\ parse_error' = r.exc
           /\ tables_seen' = IF pc = "format" THEN tables_seen \cup {r.buf} ELSE tables_seen
           /\ last_seen' = [k \in WrittenKeys(m, r.exc) |-> now] @@ last_seen
    /\ msg_count' = msg_count + 1
    /\ last_msg' = m
    /\ IF hue.present /\ ReachesSetState(telemetry_buffer, m.topic, m.payload)
       THEN \E out \in NetOutcomes : hue' = HueCall(hue, now, out)
       ELSE hue' = hue
    /\ UNCHANGED <<record_enabled, tickerVars, metrics_enabled, metrics_rows>>
    /\ UNCHANGED <<legacyVars, recorderVars, benchVars, web, brain>>

(***************************************************************************)
(* outputs/auditor.py.  Texts are strings; a context line is a string or   *)
(* the str() of a stored dict (Repr).                                      *)
(***************************************************************************)

\* s in t, on strings
Contains(t, s) == \E i \in 1..(Len(t) - Len(s) + 1) : SubSeq(t, i, i + Len(s) - 1) = s

UpperCase == "ABCDEFGHIJKLMNOPQRSTUVWXYZ"
LowerCase == "abcdefghijklmnopqrstuvwxyz"
LowerChar(c) ==
    IF \E i \in 1..26 : SubSeq(UpperCase, i, i) = c
    THEN LET i == CHOOSE j \in 1..26 : SubSeq(UpperCase, j, j) = c IN SubSeq(LowerCase, i, i)
    ELSE c

\* text.lower()
RECURSIVE Lower(_)
Lower(s) == IF Len(s) = 0 THEN "" ELSE LowerChar(SubSeq(s, 1, 1)) \o Lower(SubSeq(s, 2, Len(s)))

\* llm_response.replace('*', '')
RECURSIVE DropStars(_)
DropStars(s) ==
    IF Len(s) = 0 THEN ""
    ELSE (IF SubSeq(s, 1, 1) = "*" THEN "" ELSE SubSeq(s, 1, 1)) \o DropStars(SubSeq(s, 2, Len(s)))

\* s.strip(), for blanks
RECURSIVE Strip(_)
Strip(s) ==
    IF Len(s) = 0 THEN ""
    ELSE IF SubSeq(s, 1, 1) = " " THEN Strip(SubSeq(s, 2, Len(s)))
    ELSE IF SubSeq(s, Len(s), Len(s)) = " " THEN Strip(SubSeq(s, 1, Len(s) - 1))
    ELSE s

\* len(s.split())
WordCount(s) ==
    Cardinality({ i \in 1..Len(s) : /\ SubSeq(s, i, i) # " "
                                    /\ (i = 1 \/ SubSeq(s, i - 1, i - 1) = " ") })

\* the text of a stored value as str(dict) shows it, for the values that are
\* strings: a JSON string, or the f-string "⚠️ CONTACT: [...]" of CASE C
ValueText(v) ==
    IF IsStr(v) THEN v.str
    ELSE IF "contact" \in DOMAIN v THEN "CONTACT: [...]"
    ELSE ""

\* needle in line, for a needle of letters and blanks: in a dict's str() it
\* can only lie inside a key or inside a string value
LineContains(line, needle) ==
    IF IsStr(line) THEN Contains(line.str, needle)
    ELSE \E f \in DOMAIN line.repr :
            Contains(f, needle) \/ Contains(ValueText(line.repr[f]), needle)

positive_triggers ==
    <<"visual contact", "contact confirmed", "human detected", "vehicle detected",
      "positive id", " sighting">>

\* TelemetryAuditor._detect_hallucination(text, telemetry_has_visuals)
DetectHallucination(text, telemetry_has_visuals) ==
    IF telemetry_has_visuals THEN 0
    ELSE IF \E i \in 1..Len(positive_triggers) : Contains(Lower(text), positive_triggers[i])
    THEN 1
    ELSE 0

\* asset_id in text, with asset_id = p.split('|')[0].replace("Asset:", "").strip();
\* no sampled line holds '|' or "Asset:", and no sampled text holds a dict's str()
AssetMentioned(line, text) == IsStr(line) /\ Contains(text, Strip(line.str))

\* TelemetryAuditor._calculate_recall(text, prompts): mentioned / total
CalculateRecall(text, prompts) ==
    IF Len(prompts) = 0 THEN [num |-> 0, den |-> 1]
    ELSE [num |-> Cardinality({ i \in 1..Len(prompts) : AssetMentioned(prompts[i], text) }),
          den |-> Len(prompts)]

\* TelemetryAuditor.audit(model_name, start_time, raw_prompts, llm_response):
\* the row it appends, as a sequence of zero or one rows
Audit(enabled, latency, raw_prompts, llm_response) ==
    IF ~enabled THEN <<>>
    ELSE LET clean_text == Strip(DropStars(llm_response))
             visuals_in_input == \E i \in 1..Len(raw_prompts) :
                                     LineContains(raw_prompts[i], "VISUAL")
         IN  <<[latency |-> latency,
                word_count |-> WordCount(clean_text),
                recall |-> CalculateRecall(clean_text, raw_prompts),
                hallucination |-> DetectHallucination(clean_text, visuals_in_input)]>>

(***************************************************************************)
(* The mission loop of main() on the main thread, with generate_sitrep     *)
(* and _format_telemetry_buffer inlined.                                   *)
(***************************************************************************)

\* a report whose completion(...) is handed to a helper thread: the mission
\* loop goes back to sleeping while the call is still outstanding
StartCallDetached(prompt) ==
    /\ user_prompt' = prompt
    /\ llm_calls' = llm_calls + 1
    /\ pc' = "sleep"
    /\ UNCHANGED last_report

\* completion(...) is entered with this user prompt: the main thread blocks in it
StartCall(prompt) ==
    /\ user_prompt' = prompt
    /\ llm_calls' = llm_calls + 1
    /\ pc' = "call"
    /\ UNCHANGED last_report

\* str(data) of one record
Repr(rec) == [repr |-> rec]

\* time.sleep(1); if time.time() - last_report > args.interval:
\* generate_sitrep() begins
SleepAndCheck ==
    /\ pc = "sleep"
    /\ now < MaxTime
    /\ now' = now + 1
    /\ IF now' - last_report > Interval
       THEN /\ start_time' = now'
            /\ IF key_order = <<>>
               THEN /\ StartCall(<<Str("DATA: No Active Telemetry.")>>)
                    /\ UNCHANGED <<iter_used, iter_pos, lines, tables_seen>>
               ELSE /\ pc' = "format"
                    /\ iter_used' = Len(key_order)
                    /\ iter_pos' = 0
                    /\ lines' = <<>>
                    /\ tables_seen' = {telemetry_buffer}
                    /\ UNCHANGED <<user_prompt, llm_calls, last_report>>
       ELSE UNCHANGED <<pc, start_time, iter_used, iter_pos, lines, tables_seen,
                        user_prompt, llm_calls, last_report>>
    /\ UNCHANGED <<ingestVars, record_enabled, llm_outcome, report>>
    /\ UNCHANGED <<metrics_enabled, metrics_rows, last_seen>>
    /\ UNCHANGED <<legacyVars, recorderVars, benchVars, sinkVars>>

\* one next() of `for tid, data in self.telemetry_buffer.items()`
FormatStep ==
    /\ pc = "format"
    /\ IF Len(key_order) # iter_used
       THEN \* RuntimeError: dictionary changed size during iteration; nothing
            \* between the iterator and the top of main() catches it
            /\ pc' = "crashed"
            /\ UNCHANGED <<iter_pos, lines, user_prompt, llm_calls, last_report>>
       ELSE IF iter_pos < iter_used
       THEN /\ lines' = Append(lines, Repr(telemetry_buffer[key_order[iter_pos + 1]]))
            /\ iter_pos' = iter_pos + 1
            /\ UNCHANGED <<pc, user_prompt, llm_calls, last_report>>
       ELSE /\ StartCall(lines)
            /\ UNCHANGED <<iter_pos, lines>>
    /\ UNCHANGED <<ingestVars, record_enabled, now, start_time, iter_used, tables_seen,
                   llm_outcome, report>>
    /\ UNCHANGED <<metrics_enabled, metrics_rows, last_seen>>
    /\ UNCHANGED <<legacyVars, recorderVars, benchVars, sinkVars>>

\* a second passes while completion() has not returned
LLMWait ==
    /\ pc = "call"
    /\ now < MaxTime
    /\ now' = now + 1
    /\ UNCHANGED <<ingestVars, record_enabled, tables_seen, pc, last_report, start_time,
                   iter_used, iter_pos, lines, user_prompt, llm_calls, llm_outcome, report>>
    /\ UNCHANGED <<metrics_enabled, metrics_rows, last_seen>>
    /\ UNCHANGED <<legacyVars, recorderVars, benchVars, sinkVars>>

\* an error report that leaves the cause out
ErrorReportBare(e) == <<"SITREP: SYSTEM ERROR. AI UNAVAILABLE.">>

\* return f"SITREP: SYSTEM ERROR. AI UNAVAILABLE. ({e})"
ErrorReport(e) == <<"SITREP: SYSTEM ERROR. AI UNAVAILABLE.", " (", e, ")">>

\* the tick's end in main(): console.print(report); last_report = time.time()
EndTick(outcome, text) ==
    /\ pc = "call"
    /\ llm_calls > 0
    /\ llm_calls' = llm_calls - 1
    /\ llm_outcome' = outcome
    /\ report' = text
    /\ metrics_rows' = metrics_rows \o
           (IF outcome.kind = "ok"
            THEN Audit(metrics_enabled, now - start_time, user_prompt, outcome.detail)
            ELSE <<>>)
    /\ last_report' = now
    /\ pc' = "sleep"
    /\ UNCHANGED <<ingestVars, record_enabled, tables_seen, now, start_time, iter_used,
                   iter_pos, lines, user_prompt, metrics_enabled, last_seen>>
    /\ UNCHANGED <<legacyVars, recorderVars, benchVars, sinkVars>>

\* completion() returns a text
LLMReturn(text) == EndTick([kind |-> "ok", detail |-> text], <<text>>)

\* completion() raises
LLMError(e) == EndTick([kind |-> "error", detail |-> e], ErrorReport(e))

Next ==
    \/ \E m \in Messages : OnMessage(m)
    \/ SleepAndCheck
    \/ FormatStep
    \/ LLMWait
    \/ \E text \in LLMTexts : LLMReturn(text)
    \/ \E e \in LLMErrors : LLMError(e)

Spec == Init /\ [][Next]_vars

(***************************************************************************)
(* The same platform seen at the grain of whole report periods, with the   *)
(* default --interval: between two message bursts the mission loop sleeps  *)
(* until the report is due, reads the table undisturbed and gets the       *)
(* LLM's answer within the second.                                         *)
(***************************************************************************)
DefaultInterval == 45
MaxTicks == 2

AuditTexts ==
    { "UAV holding at 100 m. Battery 59%.",
      "No visual contact.",
      "**Visual contact**: one human near the UAV." }

QuietInit ==
    /\ telemetry_buffer = [k \in {} |-> EmptyDict]
    /\ key_order = <<>>
    /\ record_enabled \in BOOLEAN
    /\ log_lines = <<>>
    /\ msg_count = 0
    /\ last_msg = NoMsg
    /\ parse_error = FALSE
    /\ now = 0
    /\ pc = "sleep"
    /\ last_report = 0
    /\ start_time = 0
    /\ iter_used = 0
    /\ iter_pos = 0
    /\ lines = <<>>
    /\ tables_seen = {}
    /\ user_prompt = <<>>
    /\ llm_calls = 0
    /\ llm_outcome = NoOutcome
    /\ report = <<>>
    /\ metrics_enabled \in BOOLEAN
    /\ metrics_rows = <<>>
    /\ last_seen = [k \in {} |-> 0]
    /\ history = [k \in {} |-> <<>>]
    /\ current_pilot_pos = Null
    /\ log_file = <<>>
    /\ traffic = FALSE
    /\ packets = 0
    /\ clock = 0
    /\ last_sitrep_time = 0
    /\ intel = ""
    /\ turns = 0
    /\ targets = [k \in {} |-> EmptyDict]
    /\ attempt = NoAttempt
    /\ blackbox = NoBox
    /\ disk = GoodDisk
    /\ calls = <<>>
    /\ in_flight = {}
    /\ process = NoProcess
    /\ tape = NoTape
    /\ replay = NoReplay
    /\ bus = <<>>
    /\ geo = NoCall
    /\ driver = NoCall
    /\ hue = NoHue
    /\ web = NoWeb
    /\ brain = NoCall

\* _format_telemetry_buffer() on a table no message touches meanwhile
ContextLines ==
    IF key_order = <<>> THEN <<Str("DATA: No Active Telemetry.")>>
    ELSE [i \in 1..Len(key_order) |-> Repr(telemetry_buffer[key_order[i]])]

\* the loop sleeps until the report is due, then runs one whole tick
QuietTick(outcome) ==
    /\ pc = "sleep"
    /\ last_report < MaxTicks * (DefaultInterval + 1)
    /\ now' = last_report + DefaultInterval + 1
    /\ start_time' = now'
    /\ IF key_order = <<>>
       THEN UNCHANGED <<iter_used, iter_pos, lines, tables_seen>>
       ELSE /\ iter_used' = Len(key_order)
            /\ iter_pos' = Len(key_order)
            /\ lines' = ContextLines
            /\ tables_seen' = {telemetry_buffer}
    /\ user_prompt' = ContextLines
    /\ llm_outcome' = outcome
    /\ report' = IF outcome.kind = "ok" THEN <<outcome.detail>> ELSE ErrorReport(outcome.detail)
    /\ metrics_rows' = metrics_rows \o
           (IF outcome.kind = "ok"
            THEN Audit(metrics_enabled, 0, ContextLines, outcome.detail)
            ELSE <<>>)
    /\ last_report' = now'
    /\ UNCHANGED <<pc, llm_calls, ingestVars, record_enabled, metrics_enabled, last_seen>>
    /\ UNCHANGED <<legacyVars, recorderVars, benchVars, sinkVars>>

QuietNext ==
    \/ \E m \in Messages : OnMessage(m)
    \/ \E text \in AuditTexts : QuietTick([kind |-> "ok", detail |-> text])
    \/ \E e \in LLMErrors : QuietTick([kind |-> "error", detail |-> e])

QuietSpec == QuietInit /\ [][QuietNext]_vars

(***************************************************************************)
(* The legacy monolith, archive/legacy/ai_officer_v47.py.  A stored record *)
(* is a function from field names to JSON values; of the fields the code   *)
(* stores, the model keeps ts, tid, type, lat, lon, alt, batt, acc, nav    *)
(* and ai_sightings.                                                       *)
(***************************************************************************)
\* the age in seconds beyond which a record counts as lost (line 73)
STALE_DATA_THRESHOLD == 90
AI_CLASSES ==
    (3 :> "Car") @@ (4 :> "Human") @@ (5 :> "Cyclist") @@ (6 :> "Truck") @@ (30 :> "Human")
        @@ (34 :> "Drone") @@ (35 :> "Smoke") @@ (36 :> "Fire")
HIGH_VALUE_TARGETS == {4, 30, 34, 36}
TrafficTargets == {3, 5, 6}
DEFAULT_HOME_BASE == [lat |-> [e4 |-> 603195], lon |-> [e4 |-> 248310]]
HistoryCap == 10

\* s[-4:] on the sampled serials
Last4(s) ==
    IF s = "1581F5BK1234" \/ s = "SN1234" THEN "1234"
    ELSE IF s = "TAG9999" THEN "9999"
    ELSE s
TopicSerial(topic) == IF topic \in {TopicOsd, TopicState} THEN "SN1234" ELSE "UNK"
InState(topic) == topic = TopicState      \* 'state' in topic
InOsd(topic) == topic = TopicOsd          \* 'osd' in topic

\* log_packet(topic, payload): zero or one lines
LogPacket(enabled, ts, topic, payload) ==
    IF ~enabled \/ JsonLoadsRaises(payload) THEN <<>>
    ELSE <<[ts |-> ts, topic |-> topic, data |-> JsonLoads(payload)]>>

\* estimate_lipo_percent(mv), mv in millivolts
EstimateLipoPercent(mv) ==
    IF mv = 0 THEN 0
    ELSE LET cells == IF mv > 14000 THEN 4 ELSE 3
         IN  IF mv >= 4300 * cells THEN 100
             ELSE IF mv <= 3500 * cells THEN 0
             ELSE ((mv - 3500 * cells) * 100) \div (800 * cells)

\* extract_drone_data(source, type, sn): zero or one records (None on any
\* exception and on a missing serial)
ExtractDroneData(source, nested, sn, ts) ==
    IF GetRaises(source) THEN <<>>
    ELSE LET raw_sn == IF nested THEN Get(source, "sn", Null) ELSE Str(sn)
             batt == Get(source, "battery", Obj(EmptyDict))
             pct == Get(batt, "capacity_percent", Get(source, "capacity_percent", Num(0)))
             mv == Get(batt, "voltage", Num(0))
             height == Get(source, "height", Num(0))
             rtk == Get(source, "position_state", Obj(EmptyDict))
             rtk_used == Get(rtk, "rtk_used", Num(0))
             is_fixed == Get(rtk, "is_fixed", Num(0))
             sats == IF rtk_used = Num(1) THEN Get(rtk, "rtk_number", Num(0))
                     ELSE Get(rtk, "gps_number", Num(0))
             nav_type == IF rtk_used # Num(1) THEN "GPS"
                         ELSE IF is_fixed = Num(3) THEN "RTK-FIX"
                         ELSE IF is_fixed = Num(2) THEN "RTK-FLOAT"
                         ELSE "RTK"
             inferred_acc == IF rtk_used = Num(1) THEN Tenths(1)
                             ELSE IF AsTenths(sats) > 100 THEN Tenths(50)
                             ELSE Tenths(200)
         IN  IF ~Truthy(raw_sn) \/ raw_sn = Str("UNK") \/ ~IsStr(raw_sn) THEN <<>>
             ELSE IF GetRaises(batt) \/ ~IsNumeric(height) THEN <<>>
             ELSE IF pct = Num(0) /\ ~IsNum(mv) THEN <<>>
             ELSE IF GetRaises(rtk) \/ (rtk_used # Num(1) /\ ~IsNumeric(sats)) THEN <<>>
             ELSE <<[ts |-> Num(ts),
                     tid |-> Str("UAV-" \o Last4(raw_sn.str)),
                     lat |-> Get(source, "latitude", Null),
                     lon |-> Get(source, "longitude", Null),
                     alt |-> height,
                     batt |-> IF pct = Num(0) /\ mv.num > 0
                              THEN Num(EstimateLipoPercent(mv.num)) ELSE pct,
                     acc |-> inferred_acc,
                     type |-> Str("AIR"),
                     nav |-> Str(nav_type),
                     ai_sightings |-> Obj(EmptyDict)]>>

\* the detections process_data counts: class name -> number of objects
Sightings47(objs, allow_traffic) ==
    LET allowed == HIGH_VALUE_TARGETS \cup (IF allow_traffic THEN TrafficTargets ELSE {})
        Cls(i) == Get(objs[i], "cls_id", Null)
        Hit(i) == IsNum(Cls(i)) /\ Cls(i).num \in allowed
        Name(i) == IF Cls(i).num \in DOMAIN AI_CLASSES THEN AI_CLASSES[Cls(i).num] ELSE "UNK"
        names == { Name(i) : i \in { j \in 1..Len(objs) : Hit(j) } }
    IN  [n \in names |-> Num(Cardinality({ i \in 1..Len(objs) : Hit(i) /\ Name(i) = n }))]

\* the altitude of a Remote-ID packet: the MSL entry, else the first entry
RemoteIdAlt(data) ==
    IF In("altitudes", data)
    THEN LET alts == Get(data, "altitudes", List(<<>>)).list
             msl == { i \in 1..Len(alts) : Get(alts[i], "type", Null) = Str("MSL") }
             first == IF msl = {} THEN Num(0)
                      ELSE Get(alts[CHOOSE i \in msl : \A j \in msl : i <= j], "value", Num(0))
         IN  IF first = Num(0) /\ Len(alts) > 0 THEN Get(alts[1], "value", Num(0)) ELSE first
    ELSE Get(data, "altitude", Num(0))

\* the records of one /sn drone_list: placeholders at the home base
RECURSIVE SnRecords(_, _, _)
SnRecords(drones, i, ts) ==
    IF i > Len(drones) THEN <<>>
    ELSE <<[ts |-> Num(ts),
            tid |-> Str("UAV-" \o Last4(Get(drones[i], "drone_sn", Null).str)),
            type |-> Str("AIR"),
            batt |-> Num(0),
            lat |-> DEFAULT_HOME_BASE.lat,
            lon |-> DEFAULT_HOME_BASE.lon,
            ai_sightings |-> Obj(EmptyDict)]>> \o SnRecords(drones, i + 1, ts)

RECURSIVE NestedRecords(_, _, _)
NestedRecords(drones, i, ts) ==
    IF i > Len(drones) THEN <<>>
    ELSE ExtractDroneData(drones[i], TRUE, "", ts) \o NestedRecords(drones, i + 1, ts)

\* process_data(topic, payload, allow_traffic, debug_mode) after log_packet:
\* [res: the records returned (empty for None), pilot: current_pilot_pos]
ProcessData(topic, payload, ts, allow_traffic, pilot) ==
    LET none == [res |-> <<>>, pilot |-> pilot]
        data == JsonLoads(payload)
    IN  IF JsonLoadsRaises(payload) THEN none
        ELSE IF GetRaises(data) THEN none          \* data.get on a non-dict
        ELSE IF Get(data, "_type", Null) = Str("location")
        THEN IF ~(In("lat", data) /\ In("lon", data)) THEN none     \* KeyError
             ELSE [res |-> <<[ts |-> Num(ts),
                              tid |-> Get(data, "tid", Str("PHONE")),
                              lat |-> data.obj.lat,
                              lon |-> data.obj.lon,
                              alt |-> Get(data, "alt", Num(0)),
                              batt |-> Get(data, "batt", Num(0)),
                              acc |-> Get(data, "acc", Num(0)),
                              type |-> Str("GROUND"),
                              ai_sightings |-> Obj(EmptyDict)]>>,
                   pilot |-> [lat |-> data.obj.lat, lon |-> data.obj.lon,
                              alt |-> Get(data, "alt", Num(0))]]
        ELSE IF InState(topic) /\ Get(data, "method", Null) = Str("target_detect_result_report")
        THEN LET inner == Get(data, "data", Obj(EmptyDict))
                 objs == Get(inner, "objs", List(<<>>))
             IN  IF GetRaises(inner) \/ ~IsList(objs)
                        \/ \E i \in 1..Len(objs.list) : GetRaises(objs.list[i])
                 THEN none
                 ELSE LET sightings == Sightings47(objs.list, allow_traffic)
                      IN  IF DOMAIN sightings = {} THEN none
                          ELSE [res |-> <<[type |-> Str("AI_UPDATE"),
                                           sightings |-> Obj(sightings)]>>,
                                pilot |-> pilot]
        ELSE IF HasDronetag(topic)
        THEN LET raw_id == Get(data, "sensor_id", Get(data, "uas_id", Str("UNK")))
                 loc == Get(data, "location", Obj(EmptyDict))
                 h_acc == Get(data, "horizontal_accuracy", Get(loc, "accuracy", Num(0)))
             IN  IF ~IsStr(raw_id) \/ GetRaises(loc) \/ ~IsNumeric(h_acc) THEN none
                 ELSE IF In("altitudes", data)
                         /\ (~IsList(data.obj.altitudes)
                             \/ \E i \in 1..Len(data.obj.altitudes.list) :
                                    GetRaises(data.obj.altitudes.list[i]))
                 THEN none
                 ELSE IF ~IsNumeric(RemoteIdAlt(data)) THEN none
                 ELSE [res |-> <<[ts |-> Num(ts),
                                  tid |-> Str("TAG-" \o Last4(raw_id.str)),
                                  lat |-> Get(loc, "latitude", Null),
                                  lon |-> Get(loc, "longitude", Null),
                                  alt |-> RemoteIdAlt(data),
                                  batt |-> Num(-1),
                                  type |-> Str("AIR"),
                                  nav |-> Str("Remote ID"),
                                  acc |-> IF AsTenths(h_acc) > 0 THEN Tenths(AsTenths(h_acc))
                                          ELSE Str(""),
                                  ai_sightings |-> Obj(EmptyDict)]>>,
                       pilot |-> pilot]
        ELSE IF EndsWithSn(topic)
        THEN IF ~In("drone_list", data) THEN none
             ELSE LET drones == data.obj.drone_list
                  IN  IF ~IsList(drones)
                         \/ \E i \in 1..Len(drones.list) :
                                ~IsStr(Get(drones.list[i], "drone_sn", Null))
                      THEN none
                      ELSE [res |-> SnRecords(drones.list, 1, ts), pilot |-> pilot]
        ELSE IF InOsd(topic) /\ In("data", data)
        THEN LET osd == data.obj.data
                 sn == TopicSerial(topic)
                 cap == Get(osd, "capacity_percent", Num(0))
             IN  IF InRaises(osd) THEN none
                 ELSE IF In("drone_list", osd)
                 THEN IF GetRaises(osd) \/ ~IsNumeric(cap) \/ ~IsList(osd.obj.drone_list)
                      THEN none
                      ELSE [res |-> (IF AsTenths(cap) > 0
                                     THEN <<[ts |-> Num(ts),
                                             tid |-> Str("CTRL-" \o Last4(sn)),
                                             lat |-> Get(osd, "latitude", Null),
                                             lon |-> Get(osd, "longitude", Null),
                                             batt |-> cap,
                                             type |-> Str("GND_STATION"),
                                             ai_sightings |-> Obj(EmptyDict)]>>
                                     ELSE <<>>)
                                    \o NestedRecords(osd.obj.drone_list.list, 1, ts),
                            pilot |-> pilot]
                 \* ... and not sn.startswith("TH"): true of the sampled serial
                 ELSE IF In("height", osd) \/ In("battery", osd)
                 THEN [res |-> ExtractDroneData(osd, FALSE, sn, ts), pilot |-> pilot]
                 ELSE none
        ELSE none

\* on_message with the returned record put in front of the tid's history
\* instead of behind it
StoreOneNewestFirst(h, r) ==
    IF r["type"] = Str("AI_UPDATE") THEN h
    ELSE LET tid == r["tid"]
             old == IF tid \in DOMAIN h THEN h[tid] ELSE <<>>
         IN  (tid :> <<r>> \o old) @@ h

\* on_message: one returned record stored in the table
StoreOne(h, r) ==
    IF r["type"] = Str("AI_UPDATE")
    THEN [tid \in DOMAIN h |->
            IF h[tid] # <<>> /\ h[tid][Len(h[tid])]["type"] = Str("AIR")
            THEN [h[tid] EXCEPT ![Len(h[tid])]["ai_sightings"] = r["sightings"]]
            ELSE h[tid]]
    ELSE LET tid == r["tid"]
             old == IF tid \in DOMAIN h THEN h[tid] ELSE <<>>
             new == Append(old, r)
         IN  (tid :> (IF Len(new) > HistoryCap THEN Tail(new) ELSE new)) @@ h

RECURSIVE StoreAll(_, _, _)
StoreAll(h, res, i) == IF i > Len(res) THEN h ELSE StoreAll(StoreOne(h, res[i]), res, i + 1)

\* the sampled inbound messages of the legacy process
UavSn == Str("1581F5BK1234")
LegacyMessages ==
    { Msg(TopicOwn, Obj([_type |-> Str("location"), tid |-> Str("RW"), lat |-> Num(60),
                         lon |-> Num(24), batt |-> Num(80), vel |-> Num(36)])),
      Msg(TopicOwn, Obj([_type |-> Str("location"), tid |-> Str("RW"), lat |-> Num(61),
                         lon |-> Num(24)])),
      Msg(TopicSn, Obj([drone_list |-> List(<<Obj([drone_sn |-> UavSn])>>)])),
      Msg(TopicOsd, Wrapped([drone_list |-> List(<<Obj([sn |-> UavSn, latitude |-> Num(60),
              longitude |-> Num(24), height |-> Num(100),
              battery |-> Obj([capacity_percent |-> Num(59)]),
              position_state |-> Obj([rtk_used |-> Num(1), is_fixed |-> Num(3),
                                      rtk_number |-> Num(20)])])>>)])),
      Msg(TopicOsd, Wrapped([drone_list |-> List(<<Obj([sn |-> UavSn, latitude |-> Num(60),
              longitude |-> Num(24), height |-> Num(90),
              battery |-> Obj([capacity_percent |-> Num(0), voltage |-> Num(15200)])])>>)])),
      Msg(TopicState, Obj([method |-> Str("target_detect_result_report"),
              data |-> Obj([objs |-> List(<<Obj([cls_id |-> Num(30)]),
                                            Obj([cls_id |-> Num(3)])>>)])])),
      Msg(TopicTag, Obj([sensor_id |-> Str("TAG9999"),
                         location |-> Obj([latitude |-> Num(60), longitude |-> Num(24),
                                           accuracy |-> Num(3)]),
                         altitudes |-> List(<<Obj([type |-> Str("MSL"), value |-> Num(100)])>>)])),
      [topic |-> TopicOsd, payload |-> Garbage] }

platformVars == <<telemetry_buffer, key_order, log_lines, msg_count, last_msg, parse_error,
                  now, pc, last_report, start_time, iter_used, iter_pos, lines, tables_seen,
                  user_prompt, llm_calls, llm_outcome, report, metrics_enabled,
                  metrics_rows, last_seen>>

\* the start of the legacy process: Init, with --traffic free
LegacyInit ==
    /\ telemetry_buffer = [k \in {} |-> EmptyDict]
    /\ key_order = <<>>
    /\ record_enabled \in BOOLEAN
    /\ log_lines = <<>>
    /\ msg_count = 0
    /\ last_msg = NoMsg
    /\ parse_error = FALSE
    /\ now = 0
    /\ pc = "sleep"
    /\ last_report = 0
    /\ start_time = 0
    /\ iter_used = 0
    /\ iter_pos = 0
    /\ lines = <<>>
    /\ tables_seen = {}
    /\ user_prompt = <<>>
    /\ llm_calls = 0
    /\ llm_outcome = NoOutcome
    /\ report = <<>>
    /\ metrics_enabled = FALSE
    /\ metrics_rows = <<>>
    /\ last_seen = [k \in {} |-> 0]
    /\ history = [k \in {} |-> <<>>]
    /\ current_pilot_pos = Null
    /\ log_file = <<>>
    /\ traffic \in BOOLEAN
    /\ packets = 0
    /\ clock = 0
    /\ last_sitrep_time = 0
    /\ intel = ""
    /\ turns = 0
    /\ targets = [k \in {} |-> EmptyDict]
    /\ attempt = NoAttempt
    /\ blackbox = NoBox
    /\ disk = GoodDisk
    /\ calls = <<>>
    /\ in_flight = {}
    /\ process = NoProcess
    /\ tape = NoTape
    /\ replay = NoReplay
    /\ bus = <<>>
    /\ geo = NoCall
    /\ driver = NoCall
    /\ hue = NoHue
    /\ web = NoWeb
    /\ brain = NoCall

\* on_message(c, u, msg) of the legacy process, on the network thread
LegacyOnMessage(m) ==
    /\ packets < MaxMsgs
    /\ packets' = packets + 1
    /\ log_file' = log_file \o LogPacket(record_enabled, clock, m.topic, m.payload)
    /\ LET r == ProcessData(m.topic, m.payload, clock, traffic, current_pilot_pos)
       IN  /\ current_pilot_pos' = r.pilot
           /\ history' = StoreAll(history, r.res, 1)
    /\ UNCHANGED <<traffic, clock, last_sitrep_time, intel, turns, targets, attempt,
                   record_enabled, platformVars, recorderVars, benchVars, sinkVars>>

\* generate_sitrep lines 460-466: the grade of an accuracy in metres
GpsGrade(acc) ==
    IF ~IsNumeric(acc) THEN "UNK"
    ELSE IF AsTenths(acc) < 50 THEN "GOOD"
    ELSE IF AsTenths(acc) < 100 THEN "FAIR"
    ELSE "POOR"

\* the grade token of an airborne record with the override of lines 493-494
\* dropped
GpsTokenPlain(nav, gps_grade) == gps_grade

\* generate_sitrep lines 493-494: the grade token of an airborne record
GpsToken(nav, gps_grade) == IF Contains(nav, "RTK") THEN "GOOD (RTK)" ELSE gps_grade

\* generate_sitrep lines 438-506: the context line of the latest record d of
\* tid at time t, as a record of the tokens the f-strings put into it
TargetLine(tid, d, t) ==
    LET data_age == t - d["ts"].num
        is_stale == data_age > STALE_DATA_THRESHOLD
        acc == IF "acc" \in DOMAIN d THEN d["acc"] ELSE Str("N/A")
        nav == IF "nav" \in DOMAIN d THEN d["nav"].str ELSE "GPS"
        air == d["type"] = Str("AIR")
        is_uav == IsStr(tid) /\ Len(tid.str) >= 3 /\ SubSeq(tid.str, 1, 3) = "UAV"
        sightings == d["ai_sightings"]
        base == [tid |-> tid, type |-> d["type"], batt |-> d["batt"],
                 gps |-> IF air THEN GpsToken(nav, GpsGrade(acc)) ELSE GpsGrade(acc),
                 acc |-> acc]
    IN  IF is_stale THEN [tid |-> tid, signal_lost |-> data_age]
        ELSE IF ~air THEN base
        ELSE IF is_uav /\ DOMAIN sightings.obj # {}
        THEN [f \in DOMAIN base \cup {"nav", "visual"} |->
                 IF f = "nav" THEN nav ELSE IF f = "visual" THEN sightings ELSE base[f]]
        ELSE [f \in DOMAIN base \cup {"nav"} |-> IF f = "nav" THEN nav ELSE base[f]]

\* generate_sitrep lines 436-445: a latest record whose battery reads 0 takes
\* the newest positive battery of its history, in place
RECURSIVE NewestPositiveBatt(_, _)
NewestPositiveBatt(hist, i) ==
    IF i = 0 THEN Null
    ELSE IF AsTenths(hist[i]["batt"]) > 0 THEN hist[i]["batt"]
    ELSE NewestPositiveBatt(hist, i - 1)
BackFill(hist) ==
    IF hist = <<>> THEN hist
    ELSE IF AsTenths(hist[Len(hist)]["batt"]) = 0 /\ Len(hist) > 1
              /\ NewestPositiveBatt(hist, Len(hist)) # Null
    THEN [hist EXCEPT ![Len(hist)]["batt"] = NewestPositiveBatt(hist, Len(hist))]
    ELSE hist

LegacyOutcomes == {"ok", "error", "timeout"}
LegacyInterval == 2
MaxTurns == 6
ReadTimeout == 90
SitrepDue == clock - last_sitrep_time > LegacyInterval

\* the seconds the LLM request takes: a read timeout ends it after
\* timeout=90, an answer or another error comes within the second
CallSeconds(outcome) == IF outcome = "timeout" THEN ReadTimeout ELSE 0

\* one turn of the legacy main loop in which the report is due:
\* generate_sitrep(args), then time.sleep(1)
LegacyGenerateSitrep(outcome) ==
    /\ SitrepDue
    /\ turns < MaxTurns
    /\ turns' = turns + 1
    /\ history' = [tid \in DOMAIN history |-> BackFill(history[tid])]
    /\ IF DOMAIN history = {}
       THEN \* if not targets: return
            /\ clock' = clock + 1
            /\ UNCHANGED <<targets, intel, last_sitrep_time, attempt>>
       ELSE /\ targets' = [tid \in DOMAIN history |->
                              TargetLine(tid, history'[tid][Len(history'[tid])], clock)]
            /\ intel' = IF outcome = "ok" THEN "Asset UAV-1234. Battery 59%." ELSE intel
            /\ attempt' = [outcome |-> outcome, start |-> clock,
                           end |-> clock + CallSeconds(outcome)]
            /\ last_sitrep_time' = IF outcome = "timeout" THEN last_sitrep_time
                                   ELSE clock + CallSeconds(outcome)
            /\ clock' = clock + CallSeconds(outcome) + 1
    /\ UNCHANGED <<current_pilot_pos, log_file, traffic, packets, record_enabled, platformVars, recorderVars, benchVars, sinkVars>>

\* one turn of the legacy main loop in which no report is due
LegacyIdle ==
    /\ ~SitrepDue
    /\ turns < MaxTurns
    /\ turns' = turns + 1
    /\ clock' = clock + 1
    /\ UNCHANGED <<history, current_pilot_pos, log_file, traffic, packets, last_sitrep_time,
                   intel, targets, attempt, record_enabled, platformVars, recorderVars, benchVars, sinkVars>>

LegacyNext ==
    \/ \E m \in LegacyMessages : LegacyOnMessage(m)
    \/ \E outcome \in LegacyOutcomes : LegacyGenerateSitrep(outcome)
    \/ LegacyIdle

LegacySpec == LegacyInit /\ [][LegacyNext]_vars

(***************************************************************************)
(* The recorder on its own: BlackBox of securingskies/outputs/recorder.py  *)
(* over a file system that may lack logs/, refuse to create it, refuse to  *)
(* open the session file, or fail a single write.                          *)
(***************************************************************************)
MaxCalls == 3

Disks == [logs_exists : BOOLEAN, can_mkdir : BOOLEAN, can_open : BOOLEAN]

\* what log() is handed: bytes of a JSON document, bytes that are not JSON,
\* a decoded dict
LogPayloads == { Bytes(Obj([tid |-> Str("RW")])), Garbage, Obj([tid |-> Str("RW")]) }

RecorderInit ==
    /\ telemetry_buffer = [k \in {} |-> EmptyDict]
    /\ key_order = <<>>
    /\ record_enabled = TRUE
    /\ log_lines = <<>>
    /\ msg_count = 0
    /\ last_msg = NoMsg
    /\ parse_error = FALSE
    /\ now = 0
    /\ pc = "sleep"
    /\ last_report = 0
    /\ start_time = 0
    /\ iter_used = 0
    /\ iter_pos = 0
    /\ lines = <<>>
    /\ tables_seen = {}
    /\ user_prompt = <<>>
    /\ llm_calls = 0
    /\ llm_outcome = NoOutcome
    /\ report = <<>>
    /\ metrics_enabled = FALSE
    /\ metrics_rows = <<>>
    /\ last_seen = [k \in {} |-> 0]
    /\ history = [k \in {} |-> <<>>]
    /\ current_pilot_pos = Null
    /\ log_file = <<>>
    /\ traffic = FALSE
    /\ packets = 0
    /\ clock = 0
    /\ last_sitrep_time = 0
    /\ intel = ""
    /\ turns = 0
    /\ targets = [k \in {} |-> EmptyDict]
    /\ attempt = NoAttempt
    /\ blackbox = NoBox
    /\ disk \in Disks
    /\ calls = <<>>
    /\ in_flight = {}
    /\ process = NoProcess
    /\ tape = NoTape
    /\ replay = NoReplay
    /\ bus = <<>>
    /\ geo = NoCall
    /\ driver = NoCall
    /\ hue = NoHue
    /\ web = NoWeb
    /\ brain = NoCall

\* BlackBox(enabled=True): __init__ and _init_file
RecorderConstruct ==
    /\ ~process.exited
    /\ blackbox.state = "absent"
    /\ IF ~disk.logs_exists /\ ~disk.can_mkdir
       THEN \* os.makedirs("logs") raises, and it stands before the try
            /\ blackbox' = [blackbox EXCEPT !.state = "failed"]
            /\ calls' = Append(calls, [op |-> "init", raised |-> TRUE])
            /\ UNCHANGED disk
       ELSE /\ disk' = [disk EXCEPT !.logs_exists = TRUE]
            /\ blackbox' = [state |-> "built", enabled |-> disk.can_open,
                            file_handle |-> disk.can_open, written |-> <<>>]
            /\ calls' = Append(calls, [op |-> "init", raised |-> FALSE])
    /\ UNCHANGED <<in_flight, process, record_enabled, platformVars, legacyVars, benchVars, sinkVars>>

\* BlackBox.log(topic, payload); write_ok tells whether write and flush succeed
RecorderLog(payload, write_ok) ==
    /\ ~process.exited
    /\ in_flight = {}
    /\ blackbox.state = "built"
    /\ Len(calls) < MaxCalls
    /\ LET decodes == IsObj(payload) \/ ~JsonLoadsRaises(payload)
           data == IF IsObj(payload) THEN payload ELSE JsonLoads(payload)
           entry == [ts |-> Len(calls), topic |-> TopicOwn, data |-> data]
       IN  blackbox' = IF blackbox.enabled /\ blackbox.file_handle /\ decodes /\ write_ok
                       THEN [blackbox EXCEPT !.written = Append(@, entry)]
                       ELSE blackbox
    /\ calls' = Append(calls, [op |-> "log", raised |-> FALSE, payload |-> payload,
                               write_ok |-> write_ok])
    /\ UNCHANGED <<disk, in_flight, process, record_enabled, platformVars, legacyVars,
                   benchVars, sinkVars>>

\* Two threads may be inside log() at once: the method takes no lock and
\* both write through the one text file object, which is not safe for
\* concurrent use.  LogEnter is a thread passing the guard at the top of
\* log() with its entry built; LogLeave is its write and flush.
Threads == {"t1", "t2"}
RaceOutcomes == {"whole", "torn", "lost"}

LogEnter(t, payload) ==
    /\ ~process.exited
    /\ blackbox.state = "built"
    /\ blackbox.enabled /\ blackbox.file_handle
    /\ Len(calls) < MaxCalls
    /\ IsObj(payload)
    /\ \A f \in in_flight : f.thread # t
    /\ LET entry == [ts |-> Len(calls), topic |-> TopicOwn, data |-> payload]
       IN /\ in_flight' = in_flight \cup {[thread |-> t, entry |-> entry]}
          /\ calls' = Append(calls, [op |-> "enter", raised |-> FALSE, entry |-> entry])
    /\ UNCHANGED <<blackbox, disk, process, record_enabled, platformVars, legacyVars,
                   benchVars, sinkVars>>

\* the write of a thread that is alone in log() appends its line whole; with
\* another thread inside, the line may also come out torn or be lost
LogLeave(t, outcome) ==
    /\ ~process.exited
    /\ \E f \in in_flight :
           /\ f.thread = t
           /\ in_flight' = in_flight \ {f}
           /\ (in_flight = {f}) => outcome = "whole"
           /\ blackbox' = IF outcome = "whole"
                           THEN [blackbox EXCEPT !.written = Append(@, f.entry)]
                           ELSE IF outcome = "torn"
                           THEN [blackbox EXCEPT !.written = Append(@, [torn |-> f.entry])]
                           ELSE blackbox
    /\ UNCHANGED <<disk, calls, process, record_enabled, platformVars, legacyVars,
                   benchVars, sinkVars>>

\* main.py: start_replay()
StartReplay ==
    /\ ~process.exited
    /\ process.replay_process = "none"
    /\ process' = [process EXCEPT !.replay_process = "running"]
    /\ UNCHANGED <<blackbox, disk, calls, in_flight, record_enabled, platformVars,
                   legacyVars, benchVars, sinkVars>>

\* A shutdown signal reaches the platform.  Only SIGINT has a handler:
\* cleanup(sig, frame) terminates the replay process and calls sys.exit(0);
\* a second SIGINT before the interpreter is gone runs it again.  SIGTERM
\* ends the process at once.
MaxSignals == 2
Signals == {"SIGINT", "SIGTERM"}
Shutdown(sig) ==
    /\ process.cleanups < MaxSignals
    /\ process.exited => (sig = "SIGINT" /\ process.cleanups >= 1)
    /\ process' = IF sig = "SIGINT"
                  THEN [process EXCEPT
                           !.replay_process = IF @ = "none" THEN "none" ELSE "terminated",
                           !.exited = TRUE,
                           !.cleanups = @ + 1]
                  ELSE [process EXCEPT !.exited = TRUE, !.cleanups = MaxSignals]
    /\ UNCHANGED <<blackbox, disk, calls, in_flight, record_enabled, platformVars,
                   legacyVars, benchVars, sinkVars>>

RecorderNext ==
    \/ RecorderConstruct
    \/ \E payload \in LogPayloads, write_ok \in BOOLEAN : RecorderLog(payload, write_ok)
    \/ \E t \in Threads, payload \in LogPayloads : LogEnter(t, payload)
    \/ \E t \in Threads, outcome \in RaceOutcomes : LogLeave(t, outcome)
    \/ StartReplay
    \/ \E sig \in Signals : Shutdown(sig)

RecorderSpec == RecorderInit /\ [][RecorderNext]_vars

(***************************************************************************)
(* The replay tool (labs/replay/replay_tool.py): a process of its own that *)
(* reads a forensic log and publishes its records on the bus.  ReplaySpec  *)
(* runs one session over a sampled log.  Wall-clock time is counted in     *)
(* ticks of 1/TicksPerSecond s, so that every due time at the sampled      *)
(* speeds is a whole number of ticks.                                      *)
(***************************************************************************)
TicksPerSecond == 2
MaxLines == 3     \* lines of a sampled log
MaxLag == 2       \* ticks by which time.sleep() may return late

\* The platform, the legacy monolith and the recorder, not running
AtRest ==
    /\ telemetry_buffer = [k \in {} |-> EmptyDict]
    /\ key_order = <<>>
    /\ record_enabled = FALSE
    /\ log_lines = <<>>
    /\ msg_count = 0
    /\ last_msg = NoMsg
    /\ parse_error = FALSE
    /\ now = 0
    /\ pc = "sleep"
    /\ last_report = 0
    /\ start_time = 0
    /\ iter_used = {}
    /\ iter_pos = 0
    /\ lines = <<>>
    /\ tables_seen = {}
    /\ user_prompt = <<>>
    /\ llm_calls = 0
    /\ llm_outcome = NoOutcome
    /\ report = <<>>
    /\ metrics_enabled = FALSE
    /\ metrics_rows = <<>>
    /\ last_seen = [k \in {} |-> 0]
    /\ history = [k \in {} |-> <<>>]
    /\ current_pilot_pos = Null
    /\ log_file = <<>>
    /\ traffic = FALSE
    /\ packets = 0
    /\ clock = 0
    /\ last_sitrep_time = 0
    /\ intel = ""
    /\ turns = 0
    /\ targets = [k \in {} |-> EmptyDict]
    /\ attempt = NoAttempt
    /\ blackbox = NoBox
    /\ disk = GoodDisk
    /\ calls = <<>>
    /\ in_flight = {}
    /\ process = NoProcess

\* Topics of logged records, and topic.startswith('thing/product')
UavTopic == "thing/product/SN1234/osd"
PhoneTopic == "owntracks/user/phone"
StartsWithAnything(topic) == TRUE
StartsWithThingProduct(topic) == topic = Str(UavTopic)

\* Lines of a log.  A well-formed line is what BlackBox.log() writes: an
\* object with a numeric ts, a topic and the decoded payload.
Stamps == {1, 2, 3, 8}
LogRecord(ts, topic) ==
    Bytes(Obj([ts |-> Num(ts), topic |-> Str(topic),
               data |-> Obj([batt |-> Num(80)])]))
WellFormedLines == {LogRecord(ts, topic) : ts \in Stamps, topic \in {UavTopic, PhoneTopic}}
NotAnObject == Bytes(List(<<Num(1)>>))
NoTs == Bytes(Obj([topic |-> Str(UavTopic), data |-> Obj([batt |-> Num(80)])]))
NoTopic == Bytes(Obj([ts |-> Num(1), data |-> Obj([batt |-> Num(80)])]))
ListData == Bytes(Obj([ts |-> Num(2), topic |-> Str(PhoneTopic), data |-> List(<<Num(1)>>)]))
MalformedLines == {Garbage, NotAnObject, NoTs, NoTopic, ListData}
LogLines == WellFormedLines \cup MalformedLines

\* the ts of a line that carries a number there
HasStamp(line) ==
    /\ ~JsonLoadsRaises(line)
    /\ Has(JsonLoads(line), "ts")
    /\ IsNum(JsonLoads(line).obj.ts)
StampOf(line) == JsonLoads(line).obj.ts.num

\* The recorder stamps each line with time.time() as it writes it, so the
\* stamps of a log do not decrease down the file.
InTimeOrder(log) ==
    \A i, j \in 1..Len(log) :
        (i < j /\ HasStamp(log[i]) /\ HasStamp(log[j])) => StampOf(log[i]) <= StampOf(log[j])
Logs == {log \in UNION {[1..n -> LogLines] : n \in 1..MaxLines} : InTimeOrder(log)}
Speeds == {1, 2}

\* get_start_time(filename, jump_to_action), scanning from line i: the
\* value returned, or the exception that leaves the function
RECURSIVE ScanFrom(_, _)
ScanFrom(log, i) ==
    IF i > Len(log) THEN [exc |-> FALSE, value |-> Null]
    ELSE IF JsonLoadsRaises(log[i]) THEN ScanFrom(log, i + 1)   \* JSONDecodeError
    ELSE LET record == JsonLoads(log[i])
             topic == Get(record, "topic", Str(""))
         IN IF GetRaises(record) \/ ~IsStr(topic)
            THEN [exc |-> TRUE, value |-> Null]                  \* AttributeError
            ELSE IF ~StartsWithThingProduct(topic) THEN ScanFrom(log, i + 1)
            ELSE IF ~Has(record, "ts") THEN ScanFrom(log, i + 1) \* KeyError
            ELSE IF ~IsNum(record.obj.ts) THEN [exc |-> TRUE, value |-> Null]
            ELSE [exc |-> FALSE, value |-> Num(record.obj.ts.num - 5)]
get_start_time(log, jump_to_action) ==
    IF ~jump_to_action THEN [exc |-> FALSE, value |-> Null] ELSE ScanFrom(log, 1)

\* client.publish(topic, payload): paho raises ValueError for a topic that
\* is None or empty and TypeError for a payload that is not a string, a
\* number or None
PublishOutcome(topic, payload) ==
    IF ~IsStr(topic) \/ topic = Str("") THEN "ValueError"
    ELSE IF IsStr(payload) \/ IsNumeric(payload) \/ payload = Null
              \/ "dumps" \in DOMAIN payload THEN "sent"
    ELSE "TypeError"

\* json.dumps(payload) for a dict payload
json_dumps(payload) == IF IsObj(payload) THEN [dumps |-> payload] ELSE payload

\* the wall-clock tick at which a record stamped ts falls due:
\* wait = (time_passed_log - time_passed_real) / speed is positive exactly
\* before wall_clock_start + (ts - first_record_ts) / speed
DueUnanchored(r, ts) == r.clock + ((ts - r.last_ts) * TicksPerSecond) \div tape.speed
Due(r, ts) == r.wall_clock_start + ((ts - r.first_record_ts.num) * TicksPerSecond) \div tape.speed

\* `for line in f`: the pos-th turn of the loop reads the pos-th line
ReadLineBackwards(log, pos) == [no |-> Len(log) + 1 - pos, text |-> log[Len(log) + 1 - pos]]
ReadLine(log, pos) == [no |-> pos, text |-> log[pos]]

\* The session of a log that has not been opened yet
NotStarted ==
    [state |-> "idle", pos |-> 1, start_skip_ts |-> Null, first_record_ts |-> Null,
     wall_clock_start |-> 0, clock |-> 0, last_ts |-> 0, packet_count |-> 0,
     connected |-> FALSE]

ReplayInit ==
    /\ AtRest
    /\ tape \in [lines : Logs, jump : BOOLEAN, speed : Speeds]
    /\ replay = NotStarted
    /\ bus = <<>>
    /\ geo = NoCall
    /\ driver = NoCall
    /\ hue = NoHue
    /\ web = NoWeb
    /\ brain = NoCall

\* replay(args) up to the loop: connect, get_start_time, the locals
ReplayStart(connect_ok) ==
    /\ replay.state = "idle"
    /\ IF ~connect_ok
       THEN replay' = [replay EXCEPT !.state = "no_broker"]
       ELSE LET scan == get_start_time(tape.lines, tape.jump)
            IN IF scan.exc
               THEN \* raised before the try: nothing disconnects the client
                    replay' = [replay EXCEPT !.state = "crashed", !.connected = TRUE]
               ELSE replay' = [replay EXCEPT !.state = "running", !.connected = TRUE,
                                             !.start_skip_ts = scan.value]
    /\ UNCHANGED <<tape, bus, geo, driver, sinkVars, record_enabled, platformVars, legacyVars,
                   recorderVars>>

\* One turn of `for line in f`; lag is the lateness of time.sleep()
ReplayLine(lag) ==
    /\ replay.state = "running"
    /\ replay.pos <= Len(tape.lines)
    /\ LET read == ReadLine(tape.lines, replay.pos)
           line == read.text
           next == [replay EXCEPT !.pos = replay.pos + 1]
           crashed == [next EXCEPT !.state = "crashed", !.connected = FALSE]
       IN IF JsonLoadsRaises(line)
          THEN /\ lag = 0
               /\ replay' = next                                  \* JSONDecodeError
               /\ UNCHANGED bus
          ELSE LET record == JsonLoads(line)
                   ts == Get(record, "ts", Null)
               IN IF GetRaises(record)
                  THEN /\ lag = 0
                       /\ replay' = crashed                       \* AttributeError
                       /\ UNCHANGED bus
                  ELSE IF Truthy(replay.start_skip_ts) /\ ~IsNum(ts)
                  THEN /\ lag = 0
                       /\ replay' = crashed                       \* TypeError
                       /\ UNCHANGED bus
                  ELSE IF Truthy(replay.start_skip_ts) /\ ts.num < replay.start_skip_ts.num
                  THEN /\ lag = 0
                       /\ replay' = next                          \* continue
                       /\ UNCHANGED bus
                  ELSE LET anchored == IF replay.first_record_ts = Null
                                       THEN [next EXCEPT !.first_record_ts = ts,
                                                         !.wall_clock_start = replay.clock]
                                       ELSE next
                       IN IF ~IsNum(ts) \/ ~IsNum(anchored.first_record_ts)
                          THEN /\ lag = 0
                               /\ replay' = [anchored EXCEPT !.state = "crashed",
                                                             !.connected = FALSE]
                               /\ UNCHANGED bus                   \* TypeError
                          ELSE LET due == Due(anchored, ts.num)
                                   slept == due > replay.clock
                                   at == IF slept THEN due + lag ELSE replay.clock
                                   topic == Get(record, "topic", Null)
                                   payload == json_dumps(Get(record, "data", Null))
                                   outcome == PublishOutcome(topic, payload)
                                   after == [anchored EXCEPT !.clock = at, !.last_ts = ts.num]
                               IN /\ slept \/ lag = 0
                                  /\ IF outcome = "sent"
                                     THEN /\ bus' = Append(bus,
                                                [line |-> read.no, ts |-> ts.num,
                                                 topic |-> topic, payload |-> payload,
                                                 reached |-> replay.clock, slept |-> slept,
                                                 at |-> at])
                                          /\ replay' = [after EXCEPT
                                                 !.packet_count = replay.packet_count + 1]
                                     ELSE IF outcome = "ValueError"
                                     THEN /\ replay' = after      \* continue
                                          /\ UNCHANGED bus
                                     ELSE /\ replay' = [after EXCEPT !.state = "crashed",
                                                                     !.connected = FALSE]
                                          /\ UNCHANGED bus        \* TypeError
    /\ UNCHANGED <<tape, geo, driver, sinkVars, record_enabled, platformVars, legacyVars, recorderVars>>

\* The file is exhausted: finally, client.disconnect()
ReplayEof ==
    /\ replay.state = "running"
    /\ replay.pos > Len(tape.lines)
    /\ replay' = [replay EXCEPT !.state = "done", !.connected = FALSE]
    /\ UNCHANGED <<tape, bus, geo, driver, sinkVars, record_enabled, platformVars, legacyVars,
                   recorderVars>>

\* Ctrl-C during the loop: except KeyboardInterrupt, then finally
ReplayInterrupt ==
    /\ replay.state = "running"
    /\ replay.pos <= Len(tape.lines)
    /\ replay' = [replay EXCEPT !.state = "cancelled", !.connected = FALSE]
    /\ UNCHANGED <<tape, bus, geo, driver, sinkVars, record_enabled, platformVars, legacyVars,
                   recorderVars>>

ReplayNext ==
    \/ \E connect_ok \in BOOLEAN : ReplayStart(connect_ok)
    \/ \E lag \in 0..MaxLag : ReplayLine(lag)
    \/ ReplayEof
    \/ ReplayInterrupt

ReplaySpec == ReplayInit /\ [][ReplayNext]_vars

(***************************************************************************)
(* Geodesy (utils/geo.py).  GeoSpec calls the two functions with sampled   *)
(* arguments.  A distance is kept as what the properties read of it:       *)
(* whether the call raised and whether the result is zero.                 *)
(***************************************************************************)
\* coordinates and altitudes as the drivers may hand them over
GeoValues == {Null, Num(0), Num(60), Str("n/a")}

\* calculate_distance_3d(lat1, lon1, alt1, lat2, lon2, alt2)
calculate_distance_3d(lat1, lon1, alt1, lat2, lon2, alt2) ==
    IF lat1 = Null \/ lat2 = Null
    THEN [exc |-> "none", zero |-> TRUE]                \* return 0.0
    ELSE IF ~IsNum(lat1) \/ ~IsNum(lat2) \/ ~IsNum(lon1) \/ ~IsNum(lon2)
    THEN [exc |-> "TypeError", zero |-> FALSE]          \* math.radians, lon2 - lon1
    ELSE IF (Truthy(alt1) /\ ~IsNum(alt1)) \/ (Truthy(alt2) /\ ~IsNum(alt2))
    THEN [exc |-> "TypeError", zero |-> FALSE]          \* (alt2 or 0) - (alt1 or 0)
    ELSE LET a1 == IF Truthy(alt1) THEN alt1.num ELSE 0
             a2 == IF Truthy(alt2) THEN alt2.num ELSE 0
         IN [exc |-> "none", zero |-> lat1 = lat2 /\ lon1 = lon2 /\ a1 = a2]

\* calculate_distance(lat1, lon1, lat2, lon2)
calculate_distance(lat1, lon1, lat2, lon2) ==
    calculate_distance_3d(lat1, lon1, Num(0), lat2, lon2, Num(0))

GeoInit ==
    /\ AtRest
    /\ tape = NoTape
    /\ replay = NoReplay
    /\ bus = <<>>
    /\ geo = NoCall
    /\ driver = NoCall
    /\ hue = NoHue
    /\ web = NoWeb
    /\ brain = NoCall

GeoCall2d(lat1, lon1, lat2, lon2) ==
    /\ geo = NoCall
    /\ geo' = [fn |-> "calculate_distance", lat1 |-> lat1, lon1 |-> lon1,
               lat2 |-> lat2, lon2 |-> lon2,
               result |-> calculate_distance(lat1, lon1, lat2, lon2)]
    /\ UNCHANGED <<tape, replay, bus, driver, sinkVars, record_enabled, platformVars, legacyVars,
                   recorderVars>>

GeoCall3d(lat1, lon1, alt1, lat2, lon2, alt2) ==
    /\ geo = NoCall
    /\ geo' = [fn |-> "calculate_distance_3d", lat1 |-> lat1, lon1 |-> lon1,
               lat2 |-> lat2, lon2 |-> lon2, alt1 |-> alt1, alt2 |-> alt2,
               result |-> calculate_distance_3d(lat1, lon1, alt1, lat2, lon2, alt2)]
    /\ UNCHANGED <<tape, replay, bus, driver, sinkVars, record_enabled, platformVars, legacyVars,
                   recorderVars>>

GeoNext ==
    \/ \E lat1, lon1, lat2, lon2 \in GeoValues : GeoCall2d(lat1, lon1, lat2, lon2)
    \/ \E lat1, lon1, alt1, lat2, lon2, alt2 \in GeoValues :
           GeoCall3d(lat1, lon1, alt1, lat2, lon2, alt2)

GeoSpec == GeoInit /\ [][GeoNext]_vars

(***************************************************************************)
(* The driver classes (drivers/autel.py, dronetag.py, owntracks.py).  Each *)
(* body operator returns [exc, counted, value]: whether the statements of  *)
(* parse() raised, whether packet_count was incremented before that, and   *)
(* the value returned otherwise (Null for None).  DriverSpec runs the      *)
(* drivers next to the dispatcher, which owns the fleet table.             *)
(***************************************************************************)
MaxParses == 1

\* AutelDriver._normalize_uav(raw)
AutelNormalizeUav(raw) ==
    LET sn == Get(raw, "sn", Str("UNK"))
        batt == Get(raw, "battery", Obj(EmptyDict))
        pos_state == Get(raw, "position_state", Obj(EmptyDict))
        rtk_used == Get(pos_state, "rtk_used", Num(0))
        is_fixed == Get(pos_state, "is_fixed", Num(0))
        sats == Get(pos_state, "gps_number", Num(0))
        gimbal == Get(raw, "gimbal_payload", Obj(EmptyDict))
        link == Get(raw, "wireless_link", Obj(EmptyDict))
        horizontal_speed == Get(raw, "horizontal_speed", Num(0))
        attitude_head == Get(raw, "attitude_head", Num(0))
        rtk == rtk_used = Num(1)
        gps3d == ~rtk /\ AsTenths(sats) > 120
    IN  IF \/ GetRaises(raw) \/ GetRaises(batt) \/ GetRaises(pos_state)
           \/ (~rtk /\ ~IsNumeric(sats))
           \/ GetRaises(gimbal) \/ GetRaises(link)
           \/ ~IsStr(sn)
           \/ ~IsNumeric(horizontal_speed) \/ ~IsNumeric(attitude_head)
        THEN [exc |-> TRUE, value |-> Null]
        ELSE [exc |-> FALSE,
              value |-> Obj([tid |-> Str("UAV-" \o Last4(sn.str)),
                             type |-> Str("AIR"),
                             lat |-> Get(raw, "latitude", Null),
                             lon |-> Get(raw, "longitude", Null),
                             alt |-> Get(raw, "height", Num(0)),
                             batt |-> Get(batt, "capacity_percent",
                                          Get(raw, "capacity_percent", Num(0))),
                             batt_rth |-> Get(batt, "return_home_power", Num(0)),
                             batt_land |-> Get(batt, "landing_power", Num(0)),
                             home_dist |-> Get(raw, "home_distance", Num(0)),
                             speed |-> Tenths((AsTenths(horizontal_speed) * 36) \div 10),
                             heading |-> Tenths(AsTenths(attitude_head)),
                             nav |-> Str(IF rtk
                                         THEN (IF is_fixed = Num(3) THEN "RTK-FIX"
                                               ELSE IF is_fixed = Num(2) THEN "RTK-FLOAT"
                                               ELSE "RTK")
                                         ELSE IF gps3d THEN "GPS-3D" ELSE "GPS"),
                             acc |-> Tenths(IF rtk THEN 1 ELSE IF gps3d THEN 30 ELSE 100),
                             sats |-> sats,
                             link_quality |-> Get(link, "sdr_quality", Num(0)),
                             gimbal_pitch |-> Get(gimbal, "gimbal_pitch", Num(0))])]

\* AutelDriver._parse_osd(topic, osd_data), with _find_sibling_data and
\* _parse_storage
AutelParseOsd(topic, osd_data) ==
    LET cap == Get(osd_data, "capacity_percent", Num(0))
        has_list == In("drone_list", osd_data)
        storage == Get(osd_data, "storage", Obj(EmptyDict))
        used == Get(storage, "used", Num(0))
        total == Get(storage, "total", Num(1))
        storage_raises == Truthy(storage) /\ (\/ GetRaises(storage)
                                              \/ ~IsNumeric(used) \/ ~IsNumeric(total)
                                              \/ AsTenths(total) = 0)
        controller == has_list /\ AsTenths(cap) > 0
        ctrl == Obj([tid |-> Str("CTRL-" \o Last4(TopicSerial(topic))),
                     type |-> Str("GND_STATION"),
                     lat |-> Get(osd_data, "latitude", Null),
                     lon |-> Get(osd_data, "longitude", Null),
                     batt |-> cap,
                     mode |-> Str("Active"),
                     storage |-> IF Truthy(storage)
                                 THEN [percent |-> (AsTenths(used) * 100) \div AsTenths(total)]
                                 ELSE Str("N/A")])
        gimbals == {k \in DOMAIN osd_data.obj :
                       In("gimbal_pitch", osd_data.obj[k]) /\ IsObj(osd_data.obj[k])}
        root == Get(osd_data, "data", Null)
        sibling_raises == In("data", osd_data) /\ InRaises(root)
        with_battery == In("data", osd_data) /\ IsObj(root) /\ In("battery", root)
        siblings == (IF gimbals = {} THEN EmptyDict
                     ELSE ("gimbal_payload" :> osd_data.obj[CHOOSE k \in gimbals : TRUE]))
                    @@ (IF with_battery THEN ("battery" :> root.obj.battery) ELSE EmptyDict)
        drones == IF has_list THEN IterItems(osd_data.obj.drone_list) ELSE <<>>
        Full(i) == Obj(siblings @@ drones[i].obj)
        direct == ~has_list /\ (In("height", osd_data) \/ In("battery", osd_data))
        own == IF In("sn", osd_data) THEN osd_data
               ELSE Obj(("sn" :> Str(TopicSerial(topic))) @@ osd_data.obj)
    IN  IF GetRaises(osd_data) \/ ~IsNumeric(cap) THEN [exc |-> TRUE, value |-> Null]
        ELSE IF controller /\ storage_raises THEN [exc |-> TRUE, value |-> Null]
        ELSE IF has_list
        THEN IF \/ IterRaises(osd_data.obj.drone_list)
                \/ \E i \in 1..Len(drones) : ~IsObj(drones[i])
                \/ (Len(drones) > 0 /\ sibling_raises)
                \/ \E i \in 1..Len(drones) : AutelNormalizeUav(Full(i)).exc
             THEN [exc |-> TRUE, value |-> Null]
             ELSE [exc |-> FALSE,
                   value |-> List((IF controller THEN <<ctrl>> ELSE <<>>)
                                  \o [i \in 1..Len(drones) |-> AutelNormalizeUav(Full(i)).value])]
        ELSE IF direct
        THEN IF AutelNormalizeUav(own).exc THEN [exc |-> TRUE, value |-> Null]
             ELSE [exc |-> FALSE, value |-> List(<<AutelNormalizeUav(own).value>>)]
        ELSE [exc |-> FALSE, value |-> List(<<>>)]

\* AutelDriver._parse_vision(data)
AutelParseVision(data) ==
    LET inner == Get(data, "data", Obj(EmptyDict))
        objs == Get(inner, "objs", List(<<>>))
        items == IterItems(objs)
        sightings == Sightings47(items, FALSE)
    IN  IF \/ GetRaises(inner) \/ IterRaises(objs)
           \/ \E i \in 1..Len(items) : GetRaises(items[i])
        THEN [exc |-> TRUE, value |-> Null]
        ELSE [exc |-> FALSE,
              value |-> IF DOMAIN sightings = {} THEN Null
                        ELSE Obj([type |-> Str("AI_EVENT"), sightings |-> Obj(sightings)])]

\* the statements of AutelDriver.parse inside its try
AutelBody(topic, payload) ==
    IF JsonLoadsRaises(payload) THEN [exc |-> TRUE, counted |-> FALSE, value |-> Null]
    ELSE LET data == JsonLoads(payload)
             Counted(r) == [exc |-> r.exc, counted |-> TRUE, value |-> r.value]
         IN IF InOsd(topic)
            THEN IF InRaises(data) \/ (In("data", data) /\ ~IsObj(data))
                 THEN [exc |-> TRUE, counted |-> TRUE, value |-> Null]
                 ELSE IF In("data", data) THEN Counted(AutelParseOsd(topic, data.obj.data))
                 ELSE [exc |-> FALSE, counted |-> TRUE, value |-> Null]
            ELSE IF InState(topic)
            THEN IF GetRaises(data) THEN [exc |-> TRUE, counted |-> TRUE, value |-> Null]
                 ELSE IF Get(data, "method", Null) = Str("target_detect_result_report")
                 THEN Counted(AutelParseVision(data))
                 ELSE [exc |-> FALSE, counted |-> TRUE, value |-> Null]
            ELSE [exc |-> FALSE, counted |-> TRUE, value |-> Null]

\* the statements of DronetagDriver.parse inside its try
DronetagBody(topic, payload) ==
    IF JsonLoadsRaises(payload) THEN [exc |-> TRUE, counted |-> FALSE, value |-> Null]
    ELSE LET data == JsonLoads(payload)
             raw_id == Get(data, "sensor_id", Get(data, "uas_id", Str("UNK")))
             loc == Get(data, "location", Obj(EmptyDict))
             alts == Get(data, "altitudes", List(<<>>))
             items == IterItems(alts)
             scan == AltScan(items, 1)
             first == IF Len(items) > 0 THEN Get(items[1], "value", Num(0)) ELSE Num(0)
             altitude == Get(data, "altitude", Num(0))
             alt == IF In("altitudes", data)
                    THEN (IF scan.alt = Num(0) /\ Truthy(alts) THEN first ELSE scan.alt)
                    ELSE IF In("altitude", data) THEN Tenths(AsTenths(altitude))
                    ELSE Tenths(0)
             vel == Get(data, "velocity", Obj(EmptyDict))
             vx == Get(vel, "x", Null)
             vy == Get(vel, "y", Null)
             speed == IF In("horizontal_speed", vel) THEN vel.obj.horizontal_speed
                      ELSE IF In("x", vel) THEN [hypot |-> <<vx, vy>>]
                      ELSE Tenths(0)
         IN IF \/ GetRaises(data) \/ ~IsStr(raw_id) \/ GetRaises(loc)
               \/ (In("altitudes", data) /\ (\/ IterRaises(alts) \/ ~IsList(alts) \/ scan.exc))
               \/ (~In("altitudes", data) /\ In("altitude", data) /\ ~IsNumeric(altitude))
               \/ InRaises(vel)
               \/ (~In("horizontal_speed", vel) /\ In("x", vel)
                   /\ (~IsObj(vel) \/ ~IsNumeric(vx) \/ ~IsNumeric(vy)))
            THEN [exc |-> TRUE, counted |-> TRUE, value |-> Null]
            ELSE [exc |-> FALSE, counted |-> TRUE,
                  value |-> Obj([tid |-> Str("TAG-" \o Last4(raw_id.str)),
                                 type |-> Str("AIR"),
                                 lat |-> Get(loc, "latitude", Null),
                                 lon |-> Get(loc, "longitude", Null),
                                 alt |-> alt,
                                 speed |-> speed,
                                 batt |-> Num(-1),
                                 acc |-> Get(loc, "accuracy", Num(0)),
                                 nav |-> Str("Remote ID"),
                                 mode |-> Str("AIRBORNE")])]

\* the statements of OwnTracksDriver.parse inside its try, with
\* _normalize_ground_asset
OwnTracksBody(topic, payload) ==
    IF JsonLoadsRaises(payload) THEN [exc |-> TRUE, counted |-> FALSE, value |-> Null]
    ELSE LET raw == JsonLoads(payload)
             vel == Get(raw, "vel", Num(0))
         IN IF GetRaises(raw) THEN [exc |-> TRUE, counted |-> TRUE, value |-> Null]
            ELSE IF Get(raw, "_type", Null) # Str("location")
            THEN [exc |-> FALSE, counted |-> TRUE, value |-> Null]
            ELSE IF ~IsNumeric(vel) THEN [exc |-> TRUE, counted |-> TRUE, value |-> Null]
            ELSE [exc |-> FALSE, counted |-> TRUE,
                  value |-> Obj([tid |-> Get(raw, "tid", Str("RW")),
                                 type |-> Str("GROUND"),
                                 lat |-> Get(raw, "lat", Null),
                                 lon |-> Get(raw, "lon", Null),
                                 alt |-> Get(raw, "alt", Num(0)),
                                 batt |-> Get(raw, "batt", Num(-1)),
                                 speed |-> Tenths(AsTenths(vel)),
                                 course |-> Get(raw, "cog", Num(0)),
                                 acc |-> Get(raw, "acc", Num(0)),
                                 nav |-> Str("GPS"),
                                 mode |-> Str("Active")])]

\* try: ... except Exception: pass; return None -- what parse() hands back
ExceptReraise(body) ==
    [raised |-> body.exc, caught |-> FALSE, counted |-> body.counted,
     value |-> IF body.exc THEN Null ELSE body.value]
ExceptPass(body) ==
    [raised |-> FALSE, caught |-> body.exc, counted |-> body.counted,
     value |-> IF body.exc THEN Null ELSE body.value]

Drivers == {"AutelDriver", "DronetagDriver", "OwnTracksDriver"}
Parse(d, topic, payload) ==
    ExceptPass(IF d = "AutelDriver" THEN AutelBody(topic, payload)
               ELSE IF d = "DronetagDriver" THEN DronetagBody(topic, payload)
               ELSE OwnTracksBody(topic, payload))

\* the platform's sample traffic, packets shaped for the drivers, and a
\* Remote-ID packet that also carries a tid
DriverMessages ==
    Messages \cup
    { Msg(TopicTag, Obj([sensor_id |-> Str("TAG9999"), tid |-> Str("T1")])),
      Msg(TopicOsd, Wrapped([drone_list |-> List(<<Obj([sn |-> Str("1581F5BK1234"),
                                                        position_state |->
                                                            Obj([rtk_used |-> Num(1),
                                                                 is_fixed |-> Num(3),
                                                                 rtk_number |-> Num(20),
                                                                 gps_number |-> Num(14)])])>>)])),
      Msg(TopicOsd, Wrapped([drone_list |-> List(<<Obj([sn |-> Str("1581F5BK1234"),
                                                        position_state |->
                                                            Obj([rtk_used |-> Num(0),
                                                                 gps_number |-> Num(11)])])>>)])),
      Msg(TopicTag, Obj([sensor_id |-> Str("TAG9999"),
                         altitudes |-> List(<<Obj([type |-> Str("AGL"), value |-> Num(50)]),
                                              Obj([type |-> Str("MSL"), value |-> Num(0)])>>)])),
      Msg(TopicTag, Obj([sensor_id |-> Str("TAG9999"),
                         altitudes |-> List(<<Obj([type |-> Str("AGL"), value |-> Num(50)])>>)])),
      Msg(TopicTag, Obj([sensor_id |-> Str("TAG9999"), altitude |-> Num(70)])),
      Msg(TopicOwn, Obj([_type |-> Str("transition"), tid |-> Str("RW"), lat |-> Num(60),
                         lon |-> Num(24)])),
      Msg(TopicOsd, Wrapped([drone_list |-> Num(5)])),
      Msg(TopicOsd, Wrapped([capacity_percent |-> Num(80),
                             drone_list |-> List(<<Obj([sn |-> Str("1581F5BK1234"),
                                                        latitude |-> Num(60),
                                                        longitude |-> Num(24),
                                                        horizontal_speed |-> Str("n/a")])>>)])),
      Msg(TopicState, Obj([method |-> Str("target_detect_result_report"),
                           data |-> Obj([objs |-> List(<<Obj([cls_id |-> Num(30)])>>)])])) }

DriverInit ==
    /\ AtRest
    /\ tape = NoTape
    /\ replay = NoReplay
    /\ bus = <<>>
    /\ geo = NoCall
    /\ driver = [fn |-> "none", parses |-> 0, packet_count |-> [d \in Drivers |-> 0]]
    /\ hue = NoHue
    /\ web = NoWeb
    /\ brain = NoCall

\* one call of <driver>.parse(topic, payload)
DriverParse(d, m) ==
    /\ driver.parses < MaxParses
    /\ LET r == Parse(d, m.topic, m.payload)
       IN driver' = [fn |-> d, parses |-> driver.parses + 1,
                     packet_count |-> [driver.packet_count EXCEPT
                                          ![d] = IF r.counted THEN @ + 1 ELSE @],
                     topic |-> m.topic, payload |-> m.payload, result |-> r]
    /\ UNCHANGED <<tape, replay, bus, geo, sinkVars, record_enabled, platformVars, legacyVars,
                   recorderVars>>

DriverNext ==
    \/ \E d \in Drivers, m \in DriverMessages : DriverParse(d, m)
    \/ \E m \in DriverMessages : msg_count = 0 /\ OnMessage(m)

DriverSpec == DriverInit /\ [][DriverNext]_vars

(***************************************************************************)
(* The platform started with --hue.  HueSpec delivers messages to the      *)
(* dispatcher, lets the mission clock advance in steps of a third of the   *)
(* cooldown, and lets any caller set the lights.                           *)
(***************************************************************************)
MaxHueTicks == 4      \* clock steps in one behaviour
MaxLightCalls == 2    \* set_state calls made from outside the dispatcher
HueStep == RETRY_COOLDOWN \div 3

HueMessages ==
    { Msg(TopicOsd, Wrapped([drone_list |-> List(<<DroneGood>>)])),
      Msg(TopicState, Wrapped([obj_cnt |-> Num(2), objs |-> List(<<Obj([cls_id |-> Num(30)]),
                                                                    Obj([cls_id |-> Num(1)])>>)])),
      Msg(TopicState, Wrapped([obj_cnt |-> Num(0), objs |-> List(<<>>)])) }

HueInit ==
    /\ AtRest
    /\ tape = NoTape
    /\ replay = NoReplay
    /\ bus = <<>>
    /\ geo = NoCall
    /\ driver = NoCall
    /\ hue \in { HueConstruct(installed, 0, out) : installed \in BOOLEAN, out \in NetOutcomes }
    /\ web = NoWeb
    /\ brain = NoCall

\* a call of set_state(state) by any holder of the object
HueSetState(out) ==
    /\ hue.calls < MaxLightCalls
    /\ hue' = HueCall(hue, now, out)
    /\ UNCHANGED <<web, brain, benchVars, record_enabled, platformVars, legacyVars,
                   recorderVars>>

\* time passes
HueTick ==
    /\ now < MaxHueTicks * HueStep
    /\ now' = now + HueStep
    /\ UNCHANGED <<telemetry_buffer, key_order, record_enabled, log_lines, msg_count,
                   last_msg, parse_error, pc, last_report, start_time, iter_used, iter_pos,
                   lines, tables_seen, user_prompt, llm_calls, llm_outcome, report,
                   metrics_enabled, metrics_rows, last_seen, legacyVars, recorderVars,
                   benchVars, sinkVars>>

HueNext ==
    \/ \E m \in HueMessages : OnMessage(m)
    \/ \E out \in NetOutcomes : HueSetState(out)
    \/ HueTick

HueSpec == HueInit /\ [][HueNext]_vars

(***************************************************************************)
(* The live feed bridge (web/server.py), a process of its own: on_message  *)
(* keeps fleet_state and pushes one 'update' event per accepted position.  *)
(* The keys of the sampled payloads are lower-case, and no sampled object  *)
(* holds a matching key beside a nested match, so neither k.lower() nor    *)
(* the order in which a dict is iterated changes what is found.            *)
(***************************************************************************)
MaxWebMsgs == 3       \* messages the bridge receives in one behaviour

TopicRc == "thing/product/TH7654/osd"

\* topic.split('/')
Split(topic) ==
    IF topic = TopicOsd THEN <<"thing", "product", "SN1234", "osd">>
    ELSE IF topic = TopicRc THEN <<"thing", "product", "TH7654", "osd">>
    ELSE IF topic = TopicOwn THEN <<"owntracks", "user", "RW">>
    ELSE <<"dronetag", "9999">>

\* find_val_recursive(data, targets), targets being names; None is Null
RECURSIVE find_val_recursive(_, _)
find_val_recursive(data, names) ==
    IF IsObj(data)
    THEN LET direct == { k \in DOMAIN data.obj : k \in names }
             nested == { k \in DOMAIN data.obj \ direct :
                            /\ IsObj(data.obj[k]) \/ IsList(data.obj[k])
                            /\ find_val_recursive(data.obj[k], names) # Null }
         IN  IF direct # {} THEN data.obj[CHOOSE k \in direct : TRUE]
             ELSE IF nested # {}
             THEN find_val_recursive(data.obj[CHOOSE k \in nested : TRUE], names)
             ELSE Null
    ELSE IF IsList(data)
    THEN LET hits == { i \in 1..Len(data.list) :
                          find_val_recursive(data.list[i], names) # Null }
         IN  IF hits = {} THEN Null
             ELSE find_val_recursive(data.list[CHOOSE i \in hits : \A j \in hits : i <= j],
                                     names)
    ELSE Null

\* get_coords(payload)
get_coords(payload) ==
    [lat |-> find_val_recursive(payload, {"lat", "latitude", "gps_lat"}),
     lon |-> find_val_recursive(payload, {"lon", "longitude", "gps_lon"})]

\* tid.startswith("TH")
StartsWithTH(s) == Len(s) >= 2 /\ SubSeq(s, 1, 2) = "TH"

\* the classification of on_message: [exc, tid, icon]
Classify(topic, payload) ==
    LET parts == Split(topic)
    IN  IF parts[1] = "owntracks"
        THEN IF GetRaises(payload) THEN [exc |-> TRUE, tid |-> Null, icon |-> ""]
             ELSE [exc |-> FALSE, tid |-> Get(payload, "tid", Str(parts[Len(parts)])),
                   icon |-> "mobile"]
        ELSE IF parts[1] = "dronetag"
        THEN IF GetRaises(payload) THEN [exc |-> TRUE, tid |-> Null, icon |-> ""]
             ELSE [exc |-> FALSE, tid |-> Get(payload, "id", Str("RID")), icon |-> "plane"]
        ELSE LET tid == IF Len(parts) >= 3 THEN parts[3] ELSE "AUTEL_UNK"
             IN  IF StartsWithTH(tid)
                 THEN [exc |-> FALSE, tid |-> Str(tid \o " (RC)"), icon |-> "controller"]
                 ELSE [exc |-> FALSE, tid |-> Str(tid), icon |-> "helicopter"]

\* the body of on_message at time ts: the event it pushes, if any
WebEvent(topic, payload, ts) ==
    IF JsonLoadsRaises(payload) THEN <<>>
    ELSE LET data == JsonLoads(payload)
             c == get_coords(data)
             cls == Classify(topic, data)
         IN  IF cls.exc THEN <<>>
             ELSE IF c.lat = Null \/ c.lon = Null THEN <<>>
             ELSE IF ~IsNumeric(c.lat) \/ ~IsNumeric(c.lon) THEN <<>>   \* float() raises
             ELSE IF ~(AbsTenths(c.lat) > 10) THEN <<>>
             ELSE IF ~Hashable(cls.tid) THEN <<>>                      \* TypeError
             ELSE <<[tid |-> cls.tid, lat |-> Tenths(AsTenths(c.lat)),
                     lon |-> Tenths(AsTenths(c.lon)), icon |-> cls.icon,
                     last_seen |-> ts]>>

WebMessages ==
    { Msg(TopicOwn, Obj([_type |-> Str("location"), tid |-> Str("RW"), lat |-> Num(60),
                         lon |-> Num(24)])),
      Msg(TopicOwn, Obj([_type |-> Str("location"), lat |-> Num(61), lon |-> Num(24)])),
      Msg(TopicOwn, Obj([_type |-> Str("location"), tid |-> Str("RW"), lat |-> Num(0),
                         lon |-> Num(0)])),
      Msg(TopicOwn, Obj([_type |-> Str("location"), tid |-> Str("RW"), lat |-> Str("n/a"),
                         lon |-> Num(24)])),
      Msg(TopicOwn, List(<<Obj([tid |-> Str("RW"), lat |-> Num(60), lon |-> Num(24)])>>)),
      Msg(TopicOwn, Obj([tid |-> List(<<Str("RW")>>), lat |-> Num(60), lon |-> Num(24)])),
      Msg(TopicTag, Obj([sensor_id |-> Str("TAG9999"),
                         location |-> Obj([latitude |-> Num(60), longitude |-> Num(24)])])),
      Msg(TopicOsd, Wrapped([drone_list |-> List(<<DroneGood>>)])),
      Msg(TopicRc, Wrapped([latitude |-> Num(60), longitude |-> Num(25)])),
      [topic |-> TopicOsd, payload |-> Garbage] }

WebInit ==
    /\ AtRest
    /\ tape = NoTape
    /\ replay = NoReplay
    /\ bus = <<>>
    /\ geo = NoCall
    /\ driver = NoCall
    /\ hue = NoHue
    /\ web = NoWeb
    /\ brain = NoCall

\* on_message(client, userdata, msg); the bridge's clock counts its messages
WebOnMessage(m) ==
    /\ web.count < MaxWebMsgs
    /\ LET ev == WebEvent(m.topic, m.payload, web.count + 1)
       IN  web' = [fleet_state |-> IF ev = <<>> THEN web.fleet_state
                                   ELSE (ev[1].tid :> ev[1]) @@ web.fleet_state,
                   pushed |-> web.pushed \o ev,
                   count |-> web.count + 1,
                   last |-> m]
    /\ UNCHANGED <<hue, brain, benchVars, record_enabled, platformVars, legacyVars,
                   recorderVars>>

WebNext == \E m \in WebMessages : WebOnMessage(m)

WebSpec == WebInit /\ [][WebNext]_vars

(***************************************************************************)
(* The persona prompt (officer.py, _load_optimized_brain): the loader is   *)
(* called once, by the constructor, with a persona name and whatever the   *)
(* file config/optimized_<persona>.json holds at that moment.              *)
(***************************************************************************)
MaxDemos == 2         \* exemplars in a sampled prompt file

defaults ==
    [pilot |-> "You are a Co-Pilot. Concise. Focus on Battery, Signal, and Speed. Max 20 words.",
     commander |-> "You are a Tactical Commander. Analyze trends. Focus on Arrival Estimates and Separation.",
     analyst |-> "You are a Data Scientist. Explain GPS Accuracy (RTK) and Battery Latency."]

guardrails ==
    "\n\n--- STRICT TERMINOLOGY RULES ---\n"
    \o "1. Check the 'type' field in the DATA.\n"
    \o "2. If type is 'Ground Station (GCS)', refer to it as 'OPERATOR' or 'GCS'. It is NOT a drone.\n"
    \o "3. If type is 'UAV' (Autel or Dronetag), refer to it as 'DRONE' or 'UAV'.\n"
    \o "4. Do not hallucinate RTK status. If 'pos_type' is missing, do not mention RTK.\n"
    \o "5. If only GCS is present, state \"No UAVs active\".\n"

UpperChar(c) ==
    IF \E i \in 1..26 : SubSeq(LowerCase, i, i) = c
    THEN LET i == CHOOSE j \in 1..26 : SubSeq(LowerCase, j, j) = c IN SubSeq(UpperCase, i, i)
    ELSE c

\* persona.upper()
RECURSIVE Upper(_)
Upper(s) == IF Len(s) = 0 THEN "" ELSE UpperChar(SubSeq(s, 1, 1)) \o Upper(SubSeq(s, 2, Len(s)))

\* no static prompt at all
StaticBrainEmpty(persona) == ""

\* defaults.get(persona, defaults['pilot'])
StaticBrain(persona) ==
    IF persona \in DOMAIN defaults THEN defaults[persona] ELSE defaults["pilot"]

\* the text an f-string makes of a sampled exemplar field (a str or an int)
FormatField(v) == PyStr(v).str

\* the for loop over demos: the lines it adds to base_prompt
RECURSIVE DemoLines(_, _)
DemoLines(demos, i) ==
    IF i > Len(demos) THEN ""
    ELSE LET raw == Get(demos[i], "raw_telemetry", Str(""))
             rep == Get(demos[i], "report", Str(""))
         IN  (IF Truthy(raw) /\ Truthy(rep)
              THEN "DATA: " \o FormatField(raw) \o "\nREPORT: " \o FormatField(rep) \o "\n---\n"
              ELSE "")
             \o DemoLines(demos, i + 1)

\* the try block of the loader on an open file: [exc, loaded, base_prompt]
ReadBrain(persona, content) ==
    IF JsonLoadsRaises(content) THEN [exc |-> TRUE, loaded |-> FALSE, base_prompt |-> ""]
    ELSE LET data == JsonLoads(content)
             predict == Get(data, "predict", Obj(EmptyDict))
             demos == Get(predict, "demos", List(<<>>))
         IN  IF GetRaises(data) \/ GetRaises(predict)
             THEN [exc |-> TRUE, loaded |-> FALSE, base_prompt |-> ""]
             ELSE IF ~Truthy(demos) THEN [exc |-> FALSE, loaded |-> FALSE, base_prompt |-> ""]
             ELSE IF IterRaises(demos)                                \* len(demos)
             THEN [exc |-> TRUE, loaded |-> FALSE, base_prompt |-> ""]
             ELSE IF \E i \in 1..Len(IterItems(demos)) : GetRaises(IterItems(demos)[i])
             THEN [exc |-> TRUE, loaded |-> FALSE, base_prompt |-> ""]
             ELSE [exc |-> FALSE, loaded |-> TRUE,
                   base_prompt |-> "You are the " \o Upper(persona)
                                      \o ". Follow these trained examples:\n\n"
                                      \o DemoLines(demos.list, 1)
                                      \o "\nNow generate the REPORT for the current DATA."]

\* GhostCommander._load_optimized_brain(persona), given the file
load_optimized_brain(persona, file) ==
    LET r == IF file.exists /\ file.readable THEN ReadBrain(persona, file.content)
             ELSE [exc |-> file.exists, loaded |-> FALSE, base_prompt |-> ""]
    IN  (IF r.loaded THEN r.base_prompt ELSE StaticBrain(persona)) \o guardrails

Personas == {"pilot", "commander", "analyst", "observer"}

DemoGood == Obj([raw_telemetry |-> Str("UAV alt 100 batt 59"), report |-> Str("UAV holding.")])
DemoGcs == Obj([raw_telemetry |-> Str("GCS only"), report |-> Str("No UAVs active.")])
DemoNoReport == Obj([raw_telemetry |-> Str("UAV alt 100 batt 59")])
DemoItems == {DemoGood, DemoGcs, DemoNoReport, Num(5)}
DemoLists == UNION { [1..n -> DemoItems] : n \in 0..MaxDemos }

BrainContents ==
    { Bytes(Obj([predict |-> Obj([demos |-> List(d)])])) : d \in DemoLists }
    \cup { Garbage,
           Bytes(List(<<>>)),
           Bytes(Obj(EmptyDict)),
           Bytes(Obj([predict |-> Num(5)])),
           Bytes(Obj([predict |-> Obj(EmptyDict)])),
           Bytes(Obj([predict |-> Obj([demos |-> Num(5)])])),
           Bytes(Obj([predict |-> Obj([demos |-> Str("none")])])),
           Bytes(Obj([predict |-> Obj([demos |-> Obj([a |-> DemoGood])])])) }

BrainFiles ==
    { [exists |-> FALSE, readable |-> FALSE, content |-> Garbage],
      [exists |-> TRUE, readable |-> FALSE, content |-> Garbage] }
    \cup { [exists |-> TRUE, readable |-> TRUE, content |-> c] : c \in BrainContents }

BrainInit ==
    /\ AtRest
    /\ tape = NoTape
    /\ replay = NoReplay
    /\ bus = <<>>
    /\ geo = NoCall
    /\ driver = NoCall
    /\ hue = NoHue
    /\ web = NoWeb
    /\ brain = NoCall

\* GhostCommander.__init__: self.system_prompt = self._load_optimized_brain(persona)
LoadBrain(persona, file) ==
    /\ brain = NoCall
    /\ brain' = [fn |-> "_load_optimized_brain", persona |-> persona, file |-> file,
                 system_prompt |-> load_optimized_brain(persona, file)]
    /\ UNCHANGED <<hue, web, benchVars, record_enabled, platformVars, legacyVars,
                   recorderVars>>

BrainNext == \E persona \in Personas, file \in BrainFiles : LoadBrain(persona, file)

BrainSpec == BrainInit /\ [][BrainNext]_vars

(***************************************************************************)
(* Properties of the modular platform, checked under Spec.                 *)
(***************************************************************************)

\* a step that delivers one inbound message to on_message
Delivered == msg_count' = msg_count + 1

DroneListOf(m) ==
    IF Has(Inner(m), "drone_list") /\ IsList(Inner(m).obj.drone_list)
    THEN Inner(m).obj.drone_list.list ELSE <<>>

\* a drone entry whose latitude is the sentinel: numeric and below 1 in size
SentinelLat(drone) ==
    /\ Has(drone, "latitude")
    /\ IsNumeric(drone.obj.latitude)
    /\ AbsTenths(drone.obj.latitude) < 10

\* the stored UAV record holds a real position: numeric, latitude at least 1
StoredRealPosition ==
    /\ AUTEL_UAV \in DOMAIN telemetry_buffer
    /\ {"lat", "lon"} \subseteq DOMAIN telemetry_buffer[AUTEL_UAV]
    /\ IsNumeric(telemetry_buffer[AUTEL_UAV]["lat"])
    /\ AbsTenths(telemetry_buffer[AUTEL_UAV]["lat"]) >= 10

\* C1: a UAV position update whose latitude is below 1 in size, merged into
\* a record whose stored latitude is at least 1 in size, leaves the stored
\* latitude and the stored longitude both unchanged, whatever longitude the
\* update carries.
C1_SentinelKeepsLatAndLon ==
    [][ ( /\ Delivered
          /\ ~parse_error'
          /\ StoredRealPosition
          /\ Len(DroneListOf(last_msg')) > 0
          /\ \A i \in 1..Len(DroneListOf(last_msg')) : SentinelLat(DroneListOf(last_msg')[i]) )
        => /\ telemetry_buffer'[AUTEL_UAV]["lat"] = telemetry_buffer[AUTEL_UAV]["lat"]
           /\ telemetry_buffer'[AUTEL_UAV]["lon"] = telemetry_buffer[AUTEL_UAV]["lon"] ]_vars

\* the record an update is addressed to, and the stored fields it carries a
\* value for, by feed (enterprise UAV drone_list, operator location, Remote-ID)
IfHas(v, key, fields) == IF Has(v, key) THEN fields ELSE {}
UpdateTarget(m) ==
    IF Len(DroneListOf(m)) > 0 THEN AUTEL_UAV
    ELSE IF Has(Inner(m), "tid") THEN Inner(m).obj.tid
    ELSE IF Has(Inner(m), "sensor_id") THEN Inner(m).obj.sensor_id
    ELSE Null
CarriedByDrone(drone) ==
    {"tid", "type"} \cup IfHas(drone, "latitude", {"lat"}) \cup IfHas(drone, "longitude", {"lon"})
        \cup IfHas(drone, "height", {"alt"}) \cup IfHas(drone, "battery", {"batt"})
        \cup IfHas(drone, "horizontal_speed", {"speed"}) \cup IfHas(drone, "pos_type", {"pos_type"})
        \cup IfHas(drone, "position_state", {"acc"})
UpdateCarries(m) ==
    IF Len(DroneListOf(m)) > 0
    THEN IfHas(Inner(m), "timestamp", {"c2_latency"})
             \cup UNION { CarriedByDrone(DroneListOf(m)[i]) : i \in 1..Len(DroneListOf(m)) }
    ELSE IF Has(Inner(m), "tid")
    THEN DOMAIN Inner(m).obj \cup {"type"} \cup IfHas(Inner(m), "vel", {"speed"})
             \cup IfHas(Inner(m), "tst", {"link_latency"})
    ELSE IF Has(Inner(m), "sensor_id")
    THEN {"tid", "type"} \cup IfHas(Inner(m), "location", {"lat", "lon", "acc"})
             \cup IfHas(Inner(m), "altitudes", {"alt"}) \cup IfHas(Inner(m), "velocity", {"speed"})
             \cup IfHas(Inner(m), "operational_state", {"state"})
             \cup IfHas(Inner(m), "timestamp", {"link_latency"})
    ELSE {}

\* C2: merging an update into an existing record leaves every field the
\* update does not carry at its prior value, for enterprise UAV, operator
\* location and Remote-ID updates alike.
C2_MergePreservesAbsentFields ==
    [][ ( /\ Delivered
          /\ ~parse_error'
          /\ UpdateTarget(last_msg') \in DOMAIN telemetry_buffer )
        => \A f \in DOMAIN telemetry_buffer[UpdateTarget(last_msg')] \ UpdateCarries(last_msg') :
              /\ f \in DOMAIN telemetry_buffer'[UpdateTarget(last_msg')]
              /\ telemetry_buffer'[UpdateTarget(last_msg')][f]
                     = telemetry_buffer[UpdateTarget(last_msg')][f] ]_vars

\* C3: with recording on, a payload that cannot be decoded or that makes
\* normalization fail still produces a forensic record for its topic.
C3_RecordBeforeDecoding ==
    [][ (Delivered /\ record_enabled /\ parse_error')
        => /\ Len(log_lines') = Len(log_lines) + 1
           /\ log_lines'[Len(log_lines')].topic = last_msg'.topic ]_vars

\* C4: with recording on, every inbound message the dispatcher handles
\* appends exactly one log line, whose data is the decoded JSON as it was
\* received, before any normalization.
C4_OneLinePerMessageAsReceived ==
    [][ (Delivered /\ record_enabled /\ ~parse_error')
        => /\ Len(log_lines') = Len(log_lines) + 1
           /\ log_lines'[Len(log_lines')].topic = last_msg'.topic
           /\ log_lines'[Len(log_lines')].data = Decoded(last_msg') ]_vars

\* C5: no exception leaves the receive path or the ticker path: the mission
\* loop never dies of one.
C5_NoExceptionEscapes == pc # "crashed"

\* C6: a message that fails to parse or to normalize changes nothing in the
\* fleet table.
C6_MalformedChangesNothing ==
    [][ (Delivered /\ parse_error')
        => telemetry_buffer' = telemetry_buffer /\ key_order' = key_order ]_vars

\* the prompt lines of one fleet table, in insertion order
FormatTable(t) ==
    LET keys == SelectSeq(key_order, LAMBDA k : k \in DOMAIN t)
    IN  [i \in 1..Len(keys) |-> Repr(t[keys[i]])]

\* C7: the ticker's read of the fleet table never fails because a record
\* was inserted while it was reading, and the prompt it builds is the
\* rendering of one table the fleet held during the read.
C7_ConsistentSnapshot ==
    /\ pc = "crashed" => Len(key_order) = iter_used
    /\ (pc = "call" /\ user_prompt = lines)
           => \E t \in tables_seen : user_prompt = FormatTable(t)

\* C8: the fleet table is mutated only by the dispatcher: a step that
\* delivers no message (a SITREP tick, the idle loop) leaves every stored
\* record of every tid unchanged, its battery field included.
C8_OnlyDispatcherMutates ==
    [][ (msg_count' = msg_count /\ packets' = packets)
        => /\ telemetry_buffer' = telemetry_buffer
           /\ history' = history ]_vars

\* C9: at most one LLM call is in flight at any time; a report interval that
\* elapses while a call is outstanding starts no second call.
C9_SingleFlight == llm_calls <= 1

\* a call has been outstanding for longer than one report interval
C9_Witness == pc = "call" /\ llm_calls = 1 /\ now - start_time > Interval

\* a tick that ends with an LLM error
ErrorTick == pc = "call" /\ pc' = "sleep" /\ llm_outcome'.kind = "error"

\* C10 as stated: on an LLM error other than a timeout the tick emits exactly
\* the fixed string and leaves the fleet table unchanged.
C10_FixedStringOnly ==
    [][ ErrorTick
        => /\ report' = <<"SITREP: SYSTEM ERROR. AI UNAVAILABLE.">>
           /\ telemetry_buffer' = telemetry_buffer ]_vars

\* C10 amended: on an LLM error other than a timeout the tick emits the fixed
\* string followed by the error's own text in parentheses, and leaves the
\* fleet table unchanged.
C10_FixedStringThenCause ==
    [][ ErrorTick
        => /\ report' = <<"SITREP: SYSTEM ERROR. AI UNAVAILABLE.", " (",
                          llm_outcome'.detail, ")">>
           /\ llm_outcome'.detail \in LLMErrors
           /\ telemetry_buffer' = telemetry_buffer
           /\ key_order' = key_order ]_vars

\* an error tick has ended over a fleet table that holds records
C10_Witness ==
    /\ llm_outcome.kind = "error"
    /\ pc = "sleep"
    /\ report = ErrorReport(llm_outcome.detail)
    /\ key_order # <<>>

(***************************************************************************)
(* Properties of the metrics auditor and of the context the reports are    *)
(* built from, checked under QuietSpec.                                    *)
(***************************************************************************)

\* a step in which the mission loop made one SITREP attempt
SitrepAttempt == last_report' # last_report

\* the row the auditor wrote for the attempt of this step
NewRow == metrics_rows'[Len(metrics_rows')]

\* C11: with metrics enabled, every SITREP attempt appends exactly one metrics
\* row, the attempts whose LLM call fails included.
C11_OneRowPerAttempt ==
    [][(metrics_enabled /\ SitrepAttempt)
          => Len(metrics_rows') = Len(metrics_rows) + 1]_vars

\* C17: every row the auditor writes carries recall and factuality within
\* [0,1] and hallucination and safety within {0,1}.
C17_AuditorRanges ==
    \A i \in 1..Len(metrics_rows) :
        LET row == metrics_rows[i] IN
        /\ {"recall", "factuality", "hallucination", "safety"} \subseteq DOMAIN row
        /\ 0 <= row.recall.num /\ row.recall.num <= row.recall.den
        /\ 0 <= row.factuality.num /\ row.factuality.num <= row.factuality.den
        /\ row.hallucination \in {0, 1}
        /\ row.safety \in {0, 1}

\* text mentions phrase, letter case aside
Mentions(text, phrase) == Contains(Lower(text), phrase)

\* text says "no visual contact" and holds no trigger phrase elsewhere
SaysOnlyNoVisualContact(text) ==
    LET low == Lower(text) IN
    /\ Contains(low, "no visual contact")
    /\ \A i \in 2..Len(positive_triggers) : ~Contains(low, positive_triggers[i])
    /\ \A i \in 1..Len(low) :
          (i + 13 <= Len(low) /\ SubSeq(low, i, i + 13) = "visual contact")
             => (i > 3 /\ SubSeq(low, i - 3, i - 1) = "no ")

\* C18: a SITREP text that says "no visual contact", and holds no other
\* trigger phrase, is scored hallucination = 0, whatever the context carried.
C18_NegationIsNoHallucination ==
    [][(SitrepAttempt /\ metrics_enabled /\ llm_outcome'.kind = "ok"
          /\ SaysOnlyNoVisualContact(llm_outcome'.detail))
          => NewRow.hallucination = 0]_vars

\* some record of the table the context was built from carries ai_sightings
ContextCarriedSightings ==
    \E k \in DOMAIN telemetry_buffer : "ai_sightings" \in DOMAIN telemetry_buffer[k]

\* C19: the auditor scores hallucination = 1 exactly when the text mentions a
\* trigger phrase and no record of the context carried ai_sightings; when some
\* record carried ai_sightings the score is 0.
C19_HallucinationExactly ==
    [][(SitrepAttempt /\ metrics_enabled /\ llm_outcome'.kind = "ok")
          => NewRow.hallucination =
                (IF /\ \E i \in 1..Len(positive_triggers) :
                          Mentions(llm_outcome'.detail, positive_triggers[i])
                    /\ ~ContextCarriedSightings
                 THEN 1 ELSE 0)]_vars

\* a context line that marks its record as lost
TaggedSignalLost(line) ==
    LineContains(line, "SIGNAL LOST") \/ LineContains(line, "SIGNAL_LOST")

\* C13: at every SITREP tick a record's context line is tagged SIGNAL_LOST
\* exactly when the server's time minus the time the dispatcher last wrote the
\* record exceeds 90 s (so a record updated since is no longer tagged), and no
\* record ever leaves the fleet table.
C13_StaleExactlyTagged ==
    [][/\ DOMAIN telemetry_buffer \subseteq DOMAIN telemetry_buffer'
       /\ SitrepAttempt =>
             \A i \in 1..Len(key_order) :
                 TaggedSignalLost(user_prompt'[i])
                    <=> (now' - last_seen[key_order[i]] > STALE_DATA_THRESHOLD)]_vars

\* m is a vision packet that reports at least one detected object
IsVisualEvent(m) ==
    /\ Has(Inner(m), "obj_cnt") /\ Has(Inner(m), "objs")
    /\ ~Has(Inner(m), "drone_list") /\ ~EndsWithSn(m.topic)
    /\ ~Has(Inner(m), "pos_type") /\ ~Has(Inner(m), "capacity_percent")
    /\ ~VisionRaises(Inner(m))
    /\ AsTenths(Inner(m).obj.obj_cnt) > 0

\* the keys of the airborne records: the enterprise UAV and the Remote-ID tags
AirKeys(buf) ==
    { k \in DOMAIN buf :
         \/ k = AUTEL_UAV
         \/ ("type" \in DOMAIN buf[k] /\ buf[k].type = Str("UAV (Dronetag)")) }

\* C15: a visual event overwrites ai_sightings of exactly one record, the
\* airborne record the dispatcher wrote last, and changes no other record; with
\* no airborne record in the table the event is dropped and the table is
\* unchanged.
C15_VisualAttachesToNewestAir ==
    [][(Delivered /\ IsVisualEvent(last_msg')) =>
          LET air == AirKeys(telemetry_buffer)
              newest == { k \in air : \A j \in air : last_seen[j] <= last_seen[k] }
          IN  IF air = {} THEN telemetry_buffer' = telemetry_buffer
              ELSE /\ DOMAIN telemetry_buffer' = DOMAIN telemetry_buffer
                   /\ \E k \in newest :
                         /\ "ai_sightings" \in DOMAIN telemetry_buffer'[k]
                         /\ telemetry_buffer'[k].ai_sightings = Sightings(Inner(last_msg'))
                         /\ \A j \in DOMAIN telemetry_buffer \ {k} :
                               telemetry_buffer'[j] = telemetry_buffer[j]]_vars

(***************************************************************************)
(* Properties of the legacy monolith, checked under LegacySpec.            *)
(***************************************************************************)

\* a step in which the legacy generate_sitrep sent its request to the LLM
LegacyAttempt == attempt' # attempt

\* C12: a legacy tick whose LLM request times out prints no SITREP, and the
\* next request starts no sooner than one full interval after the timed-out
\* one ended.
C12_TimeoutWaitsFullInterval ==
    [][/\ (LegacyAttempt /\ attempt'.outcome = "timeout") => intel' = intel
       /\ (LegacyAttempt /\ attempt.outcome = "timeout")
             => attempt'.start - attempt.end >= LegacyInterval]_vars

\* C14: for every tid the times the dispatcher stamped on the records of its
\* history never decrease from one record to the next (the server's clock
\* does not step backwards).
C14_MonotonicFreshness ==
    \A tid \in DOMAIN history :
        \A i \in 1..(Len(history[tid]) - 1) :
            history[tid][i]["ts"].num <= history[tid][i + 1]["ts"].num

\* a tid holds two records stamped at different times
C14_Witness ==
    \E tid \in DOMAIN history :
        /\ Len(history[tid]) >= 2
        /\ history[tid][1]["ts"].num < history[tid][2]["ts"].num

\* the latest record of tid after the tick's back-fill reports an RTK solution
LatestNavIsRtk(tid) ==
    LET d == history'[tid][Len(history'[tid])]
    IN  "nav" \in DOMAIN d /\ d["nav"] \in {Str("RTK-FIX"), Str("RTK-FLOAT"), Str("RTK")}

CarriesGoodRtk(line) == "gps" \in DOMAIN line /\ line.gps = "GOOD (RTK)"

Openable(d) == (d.logs_exists \/ d.can_mkdir) /\ d.can_open

\* C20: if the session file cannot be opened the recorder is disabled and no
\* call raises or writes; if writing one line fails, log() raises nothing, and
\* a later log() whose write succeeds still appends its line.
C20_RecorderFailureIsolation ==
    [][calls' # calls =>
          LET c == calls'[Len(calls')] IN
          /\ ~c.raised
          /\ (c.op = "init" /\ ~Openable(disk))
                => (blackbox'.state = "built" /\ ~blackbox'.enabled)
          /\ (c.op = "log" /\ ~blackbox.enabled) => blackbox' = blackbox
          /\ (c.op = "log" /\ blackbox.enabled /\ ~c.write_ok) => blackbox' = blackbox
          /\ (c.op = "log" /\ blackbox.enabled /\ c.write_ok /\ IsObj(c.payload))
                => Len(blackbox'.written) = Len(blackbox.written) + 1]_vars

\* C21: when two threads call log() concurrently, the forensic file ends up
\* with one complete, well-formed line per call, none interleaved and none
\* lost.
C21_ConcurrentAppendsWhole ==
    in_flight = {} =>
        \A k \in 1..Len(calls) :
            calls[k].op = "enter" =>
                Cardinality({i \in 1..Len(blackbox.written) :
                                blackbox.written[i] = calls[k].entry}) = 1

\* C27: on a shutdown signal the recorder is flushed and closed and the
\* replay process is terminated before the platform exits, and a second run
\* of the handler changes nothing more.
C27_ShutdownClosesAndTerminates ==
    process.exited =>
        /\ (blackbox.state = "built" /\ blackbox.file_handle) => process.recorder_closed
        /\ process.replay_process # "running"

(***************************************************************************)
(* Properties of the replay tool, checked under ReplaySpec.                *)
(***************************************************************************)

\* C22: the replay engine publishes records in the order they appear in
\* the log file, and of any two replayed records the earlier one is not
\* emitted after the later one.
C22_ReplayInFileOrder ==
    \A i, j \in 1..Len(bus) :
        i < j => (bus[i].line < bus[j].line /\ bus[i].at <= bus[j].at)

\* two records replayed, the second one after a sleep
C22_Witness ==
    /\ Len(bus) >= 2
    /\ bus[1].at < bus[2].at

\* C23: during a replay with speed factor s, no wall-clock window of one
\* second sees more packets than s times the packets of the corresponding
\* log window, catching up included.  The bound is taken as generously as
\* the sentence allows: against the fullest window of s seconds anywhere in
\* the log.
C23_BoundedRate ==
    LET Emitted(t) == {i \in 1..Len(bus) : bus[i].at \in t..(t + TicksPerSecond - 1)}
        Logged(a) == {i \in 1..Len(tape.lines) :
                         /\ HasStamp(tape.lines[i])
                         /\ StampOf(tape.lines[i]) \in a..(a + tape.speed - 1)}
    IN \A i \in 1..Len(bus) :
           \E a \in Stamps :
               Cardinality(Emitted(bus[i].at)) <= tape.speed * Cardinality(Logged(a))

C25_MalformedLinesSkipped ==
    /\ replay.state # "crashed"
    /\ replay.state = "done" =>
           \A i \in 1..Len(tape.lines) :
               (/\ tape.lines[i] \in WellFormedLines
                /\ \E k \in 1..(i - 1) : tape.lines[k] \in MalformedLines
                /\ ~tape.jump)
               => \E e \in 1..Len(bus) : bus[e].line = i

C28_GeoTotal ==
    geo.fn # "none" =>
        /\ geo.result.exc = "none"
        /\ (geo.lat1 = Null \/ geo.lat2 = Null) => geo.result.zero
        /\ (\E v \in {geo.lat1, geo.lon1, geo.lat2, geo.lon2} : ~IsNum(v)) => geo.result.zero

(***************************************************************************)
(* Properties of the driver classes and of the dispatcher's choice of a    *)
(* decoder, checked under DriverSpec.                                      *)
(***************************************************************************)

\* C29: the decoder is selected by the topic alone: a message on
\* owntracks/# is handled by the operator-location decoder, one on
\* dronetag/# by the Remote-ID decoder and one on thing/product/... by the
\* enterprise UAV decoder, whichever keys the payload contains.  Read off
\* the record a delivered message stores.
C29_DecoderByTopic ==
    [][(msg_count' = msg_count + 1 /\ ~parse_error') =>
          \A k \in DOMAIN telemetry_buffer' :
              (k \notin DOMAIN telemetry_buffer \/ telemetry_buffer'[k] # telemetry_buffer[k])
              => /\ last_msg'.topic = TopicOwn =>
                        DictGet(telemetry_buffer'[k], "type", Null) = Str("Ground Station (GCS)")
                 /\ last_msg'.topic = TopicTag =>
                        DictGet(telemetry_buffer'[k], "type", Null) = Str("UAV (Dronetag)")
                 /\ last_msg'.topic \in {TopicOsd, TopicState, TopicSn} => k = AUTEL_UAV]_vars

\* C30: for every topic and payload, AutelDriver.parse, DronetagDriver.parse
\* and OwnTracksDriver.parse return a result or nothing without raising,
\* and they leave the fleet table as it is: the table changes only in steps
\* of the dispatcher.
C30_DriversTotalAndPure ==
    [][/\ driver' # driver =>
             /\ ~driver'.result.raised
             /\ telemetry_buffer' = telemetry_buffer
             /\ key_order' = key_order
       /\ telemetry_buffer' # telemetry_buffer => msg_count' = msg_count + 1]_vars

\* a driver handed a packet its statements fail on, with a record in the
\* fleet table: it returned nothing
C30_Witness ==
    /\ driver.fn # "none"
    /\ driver.result.caught
    /\ driver.result.value = Null
    /\ DOMAIN telemetry_buffer # {}

\* C31: for every OSD packet published under topic serial S, each decoded
\* drone record has tid UAV-<last 4 of S> and the controller record has tid
\* CTRL-<last 4 of S>, for nested drone_list packets and for direct drone
\* OSD packets alike.
C31_TidFromTopicSerial ==
    (driver.fn = "AutelDriver" /\ driver.topic = TopicOsd /\ IsList(driver.result.value)) =>
        \A i \in 1..Len(driver.result.value.list) :
            LET rec == driver.result.value.list[i].obj
                last4 == Last4(TopicSerial(driver.topic))
            IN /\ rec.type = Str("AIR") => rec.tid = Str("UAV-" \o last4)
               /\ rec.type = Str("GND_STATION") => rec.tid = Str("CTRL-" \o last4)

\* C32: for every position_state, if rtk_used is 1 then sats is rtk_number,
\* nav is RTK-FIX when is_fixed is 3, RTK-FLOAT when it is 2 and RTK
\* otherwise, and the accuracy is 0.1 m; if rtk_used is not 1 the accuracy
\* is 3.0 m when the GPS satellite count is above 10 and 10.0 m otherwise.
\* Read off the drone records the enterprise UAV driver decodes from a
\* nested OSD packet.
C32_RtkDecoding ==
    LET data == IF JsonLoadsRaises(driver.payload) THEN Null
                ELSE Get(JsonLoads(driver.payload), "data", Null)
        drones == IterItems(Get(data, "drone_list", List(<<>>)))
    IN (/\ driver.fn = "AutelDriver"
        /\ driver.topic = TopicOsd
        /\ IsList(driver.result.value)
        /\ Len(driver.result.value.list) = Len(drones)) =>
           \A i \in 1..Len(drones) :
               LET ps == Get(drones[i], "position_state", Obj(EmptyDict))
                   is_fixed == Get(ps, "is_fixed", Num(0))
                   rec == driver.result.value.list[i].obj
               IN IF Get(ps, "rtk_used", Num(0)) = Num(1)
                  THEN /\ rec.sats = Get(ps, "rtk_number", Num(0))
                       /\ rec.nav = Str(IF is_fixed = Num(3) THEN "RTK-FIX"
                                        ELSE IF is_fixed = Num(2) THEN "RTK-FLOAT"
                                        ELSE "RTK")
                       /\ rec.acc = Tenths(1)
                  ELSE rec.acc = IF AsTenths(Get(ps, "gps_number", Num(0))) > 100
                                 THEN Tenths(30) ELSE Tenths(100)

(***************************************************************************)
(* Decoding rules of the dispatcher, checked under Spec.                   *)
(***************************************************************************)

\* C33: a vision packet yields a visual event that counts only objects whose
\* cls_id is one of 4, 30, 34, 36 (or, in traffic mode, also 3, 5, 6): every
\* class the dispatcher writes into a record's ai_sightings is an allowed one,
\* so an object of any other class reaches no fleet record.
C33_VisualClassFilter ==
    [][(Delivered /\ IsVisualEvent(last_msg')) =>
          \A k \in DOMAIN telemetry_buffer' :
              (/\ "ai_sightings" \in DOMAIN telemetry_buffer'[k]
               /\ (k \notin DOMAIN telemetry_buffer
                      \/ telemetry_buffer'[k] # telemetry_buffer[k])) =>
                  LET seen == telemetry_buffer'[k].ai_sightings.contact
                  IN  \A i \in DOMAIN seen :
                          /\ IsNum(seen[i])
                          /\ seen[i].num \in HIGH_VALUE_TARGETS \cup TrafficTargets]_vars

(***************************************************************************)
(* Decoding rules of the Remote-ID and operator paths, checked under       *)
(* DriverSpec for the driver classes and for the dispatcher alike.         *)
(***************************************************************************)

\* a Remote-ID payload whose altitudes, when present, is a list of objects
\* that each carry a numeric value
HasPlainAltitudes(data) ==
    /\ IsObj(data)
    /\ Has(data, "altitudes") => /\ IsList(data.obj.altitudes)
                                 /\ \A i \in 1..Len(data.obj.altitudes.list) :
                                       LET a == data.obj.altitudes.list[i]
                                       IN  Has(a, "value") /\ IsNumeric(a.obj.value)
    /\ Has(data, "altitude") => IsNumeric(data.obj.altitude)
    /\ Has(data, "altitudes") \/ Has(data, "altitude")

\* the altitude the preference order names, in tenths: the first MSL entry,
\* else the first entry, else the scalar altitude
PreferredAlt(data) ==
    LET alts == IF Has(data, "altitudes") THEN data.obj.altitudes.list ELSE <<>>
        msl == { i \in 1..Len(alts) : Has(alts[i], "type") /\ alts[i].obj.type = Str("MSL") }
        firstMsl == CHOOSE i \in msl : \A j \in msl : i <= j
    IN  IF msl # {} THEN AsTenths(alts[firstMsl].obj.value)
        ELSE IF Len(alts) > 0 THEN AsTenths(alts[1].obj.value)
        ELSE AsTenths(data.obj.altitude)

\* C34: the altitude of a Remote-ID record is the value of the first
\* altitudes entry of type MSL when there is one, whatever its value; else the
\* value of the first altitudes entry; else the scalar altitude field.  It
\* is so for the record DronetagDriver.parse returns and for the record the
\* dispatcher stores.
C34_AltitudePreference ==
    /\ (/\ driver.fn = "DronetagDriver"
        /\ ~JsonLoadsRaises(driver.payload)
        /\ HasPlainAltitudes(JsonLoads(driver.payload))
        /\ IsObj(driver.result.value)) =>
           AsTenths(driver.result.value.obj.alt) = PreferredAlt(JsonLoads(driver.payload))
    /\ (/\ msg_count = 1
        /\ last_msg.topic = TopicTag
        /\ ~JsonLoadsRaises(last_msg.payload)
        /\ HasPlainAltitudes(JsonLoads(last_msg.payload))) =>
           \A k \in DOMAIN telemetry_buffer :
               AsTenths(telemetry_buffer[k].alt) = PreferredAlt(JsonLoads(last_msg.payload))

\* m is a payload of the operator-location topic that is a JSON object whose
\* _type is not "location"
IsOtherOperatorPayload(m) ==
    /\ m.topic = TopicOwn
    /\ ~JsonLoadsRaises(m.payload)
    /\ IsObj(JsonLoads(m.payload))
    /\ Get(JsonLoads(m.payload), "_type", Null) # Str("location")

\* C35: the operator-location path writes a fleet record only for payloads
\* whose _type equals "location": delivering any other operator payload, even
\* one that carries a tid, leaves the fleet table unchanged.
C35_OnlyLocationPayloads ==
    [][(Delivered /\ IsOtherOperatorPayload(last_msg'))
          => telemetry_buffer' = telemetry_buffer]_vars

(***************************************************************************)
(* Properties of the lighting controller and of the receive path of a      *)
(* platform started with --hue, checked under HueSpec.                     *)
(***************************************************************************)

\* C36: the receive path never blocks on an outbound network call: a step
\* that processes an inbound message, a vision packet with lighting enabled
\* included, makes no network call to the bridge (and no LLM call).
C36_ReceivePathMakesNoNetworkCall ==
    [][Delivered =>
          /\ llm_calls' = llm_calls
          /\ (hue'.calls = hue.calls \/ hue'.net = 0)]_vars

\* C38: after a failed connect or a failed set_state at time t, no call of
\* set_state made before t + 30 s attempts a connection or makes any network
\* call (and each such call returns: the step exists and raises nothing).
C38_CircuitBreaker ==
    [][(/\ hue'.calls = hue.calls + 1
        /\ hue.failed_at > LongAgo
        /\ now < hue.failed_at + RETRY_COOLDOWN)
          => /\ hue'.net = 0
             /\ hue'.connects = 0]_vars

\* a set_state call was made between a failure and the end of its cooldown,
\* at a later time than the failure, on a controller that is still enabled
C38_Witness ==
    /\ hue.present /\ hue.enabled
    /\ hue.calls > 0
    /\ hue.failed_at >= 0
    /\ hue.at > hue.failed_at
    /\ hue.at < hue.failed_at + RETRY_COOLDOWN
    /\ hue.net = 0

(***************************************************************************)
(* Properties of the live feed bridge, checked under WebSpec.              *)
(***************************************************************************)

\* the message carries a latitude and a longitude, both numbers, with the
\* latitude more than 1 degree from the equator
YieldsPosition(m) ==
    /\ ~JsonLoadsRaises(m.payload)
    /\ LET c == get_coords(JsonLoads(m.payload))
       IN  /\ IsNumeric(c.lat) /\ IsNumeric(c.lon)
           /\ AbsTenths(c.lat) > 10

\* the last event of the sequence pushed for tid
LastPushedFor(pushed, tid) ==
    LET idx == { i \in 1..Len(pushed) : pushed[i].tid = tid }
    IN  pushed[CHOOSE i \in idx : \A j \in idx : j <= i]

\* C37: for every inbound message the bridge pushes exactly one event when
\* the message yields a lat and lon with |lat| > 1 degree and none otherwise;
\* afterwards its entry for each tid equals the last event pushed for that
\* tid, and every stored entry has |lat| > 1.
C37_OneEventPerPosition ==
    [][(web'.count = web.count + 1) =>
          /\ IF YieldsPosition(web'.last)
             THEN Len(web'.pushed) = Len(web.pushed) + 1
             ELSE web'.pushed = web.pushed
          /\ \A tid \in DOMAIN web'.fleet_state :
                /\ \E i \in 1..Len(web'.pushed) : web'.pushed[i].tid = tid
                /\ web'.fleet_state[tid] = LastPushedFor(web'.pushed, tid)
                /\ AbsTenths(web'.fleet_state[tid].lat) > 10]_vars

(***************************************************************************)
(* Properties of the persona prompt loader, checked under BrainSpec.       *)
(***************************************************************************)

\* text ends with tail
EndsWith(text, tail) ==
    /\ Len(text) >= Len(tail)
    /\ SubSeq(text, Len(text) - Len(tail) + 1, Len(text)) = tail

\* the prompt file holds JSON with a list of exemplars under predict.demos,
\* each of them an object
WellFormedBrain(file) ==
    /\ file.exists /\ file.readable
    /\ ~JsonLoadsRaises(file.content)
    /\ LET data == JsonLoads(file.content)
       IN  /\ Has(data, "predict") /\ Has(data.obj.predict, "demos")
           /\ IsList(data.obj.predict.obj.demos)
           /\ \A i \in 1..Len(data.obj.predict.obj.demos.list) :
                 IsObj(data.obj.predict.obj.demos.list[i])

\* C39: for every persona name and every state of the optimized prompt file
\* the loader returns a prompt that ends with the fixed guardrail trailer; when
\* the file is absent, unreadable, not JSON or of the wrong structure, the
\* part before the trailer is exactly the static default prompt of the persona
\* (the pilot's for a name that has none of its own).
C39_PromptEndsWithGuardrails ==
    brain # NoCall =>
        /\ EndsWith(brain.system_prompt, guardrails)
        /\ ~WellFormedBrain(brain.file) =>
              brain.system_prompt =
                  (IF brain.persona \in DOMAIN defaults THEN defaults[brain.persona]
                   ELSE defaults["pilot"]) \o guardrails

\* the loader met an exemplar that is no object after it had begun to build
\* the prompt, and returned the static prompt of a persona other than pilot
C39_Witness ==
    /\ brain # NoCall
    /\ brain.persona = "analyst"
    /\ brain.file.exists /\ brain.file.readable
    /\ brain.file.content = Bytes(Obj([predict |-> Obj([demos |-> List(<<DemoGood, Num(5)>>)])]))
    /\ brain.system_prompt = defaults["analyst"] \o guardrails

(***************************************************************************)
(* Agreement of the fleet table's keys with its records, checked under     *)
(* Spec.                                                                   *)
(***************************************************************************)

\* C40: after any sequence of inbound messages every record stored in the
\* fleet table under key k carries a tid field equal to k and a type field;
\* no placeholder record without identity exists.
C40_KeyTidAgreement ==
    \A k \in DOMAIN telemetry_buffer :
        /\ "tid" \in DOMAIN telemetry_buffer[k]
        /\ telemetry_buffer[k].tid = k
        /\ "type" \in DOMAIN telemetry_buffer[k]

=========================================================================
